---------------------------- MODULE Spec2Model ----------------------------
(***************************************************************************)
(* Model of the mesh synthesis core of mapto3d: ribbon extrusion           *)
(* (mesh/ribbon.rs), polygon triangulation and extrusion                   *)
(* (mesh/triangulation.rs, mesh/extrusion.rs), triangle construction       *)
(* (mesh/builder.rs) and mesh validation (mesh/validation.rs).             *)
(*                                                                         *)
(* Numbers.  The program computes in f32.  The model keeps the shape of    *)
(* IEEE arithmetic on a reduced format: a finite value x is the integer    *)
(* x * One (a fixed-point grid of step 1/One), finite values lie in        *)
(* -FMax .. FMax, a result beyond FMax becomes an infinity, and NaN is a   *)
(* value of its own that every operation propagates.  Results are rounded  *)
(* to the nearest grid value.  The grid step is far larger than 1e-10, so  *)
(* on the grid "x < 1e-10" is "x <= 0" and "x > 1e-10" is "x > 0".         *)
(***************************************************************************)
EXTENDS Integers, Sequences, FiniteSets, TLC

VARIABLES pc, op, args, ret, local

vars == <<pc, op, args, ret, local>>

-----------------------------------------------------------------------------
(* f32 *)

\* the value 1.0 on the grid
One == 10

\* the largest finite value of the reduced format (f32::MAX, scaled down)
FMax == 100000000

INF == FMax + 1

NINF == 0 - INF

NAN == FMax + 2

IsNan(x) == x = NAN

IsInf(x) == x = INF \/ x = NINF

is_finite(x) == x >= 0 - FMax /\ x <= FMax

Abs(x) == IF x < 0 THEN 0 - x ELSE x

Sgn(x) == IF x < 0 THEN 0 - 1 ELSE IF x > 0 THEN 1 ELSE 0

\* a magnitude beyond the format's range is an infinity
Sat(s, m) == IF m > FMax THEN s * INF ELSE s * m

FNeg(x) == IF IsNan(x) THEN NAN ELSE 0 - x

FAdd(a, b) ==
    IF IsNan(a) \/ IsNan(b) THEN NAN
    ELSE IF IsInf(a) /\ IsInf(b) THEN (IF a = b THEN a ELSE NAN)
    ELSE IF IsInf(a) THEN a
    ELSE IF IsInf(b) THEN b
    ELSE Sat(Sgn(a + b), Abs(a + b))

FSub(a, b) == FAdd(a, FNeg(b))

\* |a| * |b| / One rounded to nearest, or FMax + 1 when it leaves the range
MulMag(a, b) ==
    LET q == b \div One
        r == b % One
    IN  IF q > 0 /\ a > FMax \div q THEN FMax + 1
        ELSE a * q + ((a * r + One \div 2) \div One)

FMul(a, b) ==
    IF IsNan(a) \/ IsNan(b) THEN NAN
    ELSE IF IsInf(a) \/ IsInf(b)
         THEN (IF a = 0 \/ b = 0 THEN NAN ELSE Sgn(a) * Sgn(b) * INF)
    ELSE Sat(Sgn(a) * Sgn(b), MulMag(Abs(a), Abs(b)))

\* |a| / |b| rounded to nearest, b # 0
DivMag(a, b) == (a * One + b \div 2) \div b

FDiv(a, b) ==
    IF IsNan(a) \/ IsNan(b) THEN NAN
    ELSE IF IsInf(a) THEN (IF IsInf(b) THEN NAN
                           ELSE IF b < 0 THEN FNeg(a) ELSE a)
    ELSE IF IsInf(b) THEN 0
    ELSE IF b = 0 THEN (IF a = 0 THEN NAN ELSE Sgn(a) * INF)
    ELSE Sat(Sgn(a) * Sgn(b), DivMag(Abs(a), Abs(b)))

RECURSIVE ISqrtBetween(_, _, _)
\* the largest r in lo..hi with r * r <= v
ISqrtBetween(v, lo, hi) ==
    IF lo >= hi THEN lo
    ELSE LET mid == (lo + hi + 1) \div 2
         IN  IF mid * mid <= v THEN ISqrtBetween(v, mid, hi)
             ELSE ISqrtBetween(v, lo, mid - 1)

\* the integer nearest to the square root of v
ISqrt(v) ==
    LET r == ISqrtBetween(v, 0, 46340)
    IN  IF v - r * r > r THEN r + 1 ELSE r

FSqrt(x) ==
    IF IsNan(x) \/ x < 0 THEN NAN
    ELSE IF x = INF THEN INF
    ELSE ISqrt(x * One)

\* a < b and a > b of IEEE: false when an operand is NaN
FLt(a, b) == ~IsNan(a) /\ ~IsNan(b) /\ a < b

FGt(a, b) == FLt(b, a)

\* x > 1e-10 and x < 1e-10 on the grid
GtEps(x) == FGt(x, 0)

LtEps(x) == FLt(x, 1)

-----------------------------------------------------------------------------
(* mesh/builder.rs *)

calculate_normal(v0, v1, v2) ==
    LET u  == <<FSub(v1[1], v0[1]), FSub(v1[2], v0[2]), FSub(v1[3], v0[3])>>
        v  == <<FSub(v2[1], v0[1]), FSub(v2[2], v0[2]), FSub(v2[3], v0[3])>>
        nx == FSub(FMul(u[2], v[3]), FMul(u[3], v[2]))
        ny == FSub(FMul(u[3], v[1]), FMul(u[1], v[3]))
        nz == FSub(FMul(u[1], v[2]), FMul(u[2], v[1]))
        len == FSqrt(FAdd(FAdd(FMul(nx, nx), FMul(ny, ny)), FMul(nz, nz)))
    IN  IF GtEps(len)
        THEN <<FDiv(nx, len), FDiv(ny, len), FDiv(nz, len)>>
        ELSE <<0, 0, One>>

TriangleNew(v0, v1, v2) ==
    [vertices |-> <<v0, v1, v2>>, normal |-> calculate_normal(v0, v1, v2)]

-----------------------------------------------------------------------------
(* mesh/ribbon.rs *)

\* the literal 2.0
Two == 2 * One

normalize(v) ==
    LET len == FSqrt(FAdd(FMul(v[1], v[1]), FMul(v[2], v[2])))
    IN  IF GtEps(len) THEN <<FDiv(v[1], len), FDiv(v[2], len)>>
        ELSE <<One, 0>>

direction(p1, p2) == normalize(<<FSub(p2[1], p1[1]), FSub(p2[2], p1[2])>>)

\* the tangent at point i (1-based) of a polyline of at least 2 points
RibbonTangent(points, i) ==
    IF i = 1 THEN direction(points[1], points[2])
    ELSE IF i = Len(points) THEN direction(points[i - 1], points[i])
    ELSE LET d1 == direction(points[i - 1], points[i])
             d2 == direction(points[i], points[i + 1])
         IN  normalize(<<FDiv(FAdd(d1[1], d2[1]), Two),
                         FDiv(FAdd(d1[2], d2[2]), Two)>>)

\* the (left, right) rail points at point i
RibbonEdge(points, half_width, i) ==
    LET d  == RibbonTangent(points, i)
        px == FNeg(d[2])
        py == d[1]
        x  == points[i][1]
        y  == points[i][2]
    IN  <<  <<FSub(x, FMul(px, half_width)), FSub(y, FMul(py, half_width))>>,
            <<FAdd(x, FMul(px, half_width)), FAdd(y, FMul(py, half_width))>>  >>

RibbonEdges(points, half_width) ==
    [i \in 1 .. Len(points) |-> RibbonEdge(points, half_width, i)]

At(p, z) == <<p[1], p[2], z>>

\* a variant of the segment loop that pushes the bottom face whatever
\* include_bottom says; C7_SixPerSegment tells it from the loop of the source
RibbonSegmentBottomAlways(edges, i, base_z, top_z, include_bottom) ==
    LET l0  == edges[i][1]
        r0  == edges[i][2]
        l1  == edges[i + 1][1]
        r1  == edges[i + 1][2]
    IN  <<TriangleNew(At(l0, top_z), At(r0, top_z), At(r1, top_z)),
          TriangleNew(At(l0, top_z), At(r1, top_z), At(l1, top_z)),
          TriangleNew(At(l0, base_z), At(r1, base_z), At(r0, base_z)),
          TriangleNew(At(l0, base_z), At(l1, base_z), At(r1, base_z)),
          TriangleNew(At(l0, base_z), At(l0, top_z), At(l1, top_z)),
          TriangleNew(At(l0, base_z), At(l1, top_z), At(l1, base_z)),
          TriangleNew(At(r0, base_z), At(r1, top_z), At(r0, top_z)),
          TriangleNew(At(r0, base_z), At(r1, base_z), At(r1, top_z))>>

\* the triangles pushed by iteration i of the segment loop
RibbonSegment(edges, i, base_z, top_z, include_bottom) ==
    LET l0  == edges[i][1]
        r0  == edges[i][2]
        l1  == edges[i + 1][1]
        r1  == edges[i + 1][2]
        tl0 == At(l0, top_z)
        tr0 == At(r0, top_z)
        tl1 == At(l1, top_z)
        tr1 == At(r1, top_z)
        bl0 == At(l0, base_z)
        br0 == At(r0, base_z)
        bl1 == At(l1, base_z)
        br1 == At(r1, base_z)
    IN  <<TriangleNew(tl0, tr0, tr1), TriangleNew(tl0, tr1, tl1)>>
        \o (IF include_bottom
            THEN <<TriangleNew(bl0, br1, br0), TriangleNew(bl0, bl1, br1)>>
            ELSE <<>>)
        \o <<TriangleNew(bl0, tl0, tl1), TriangleNew(bl0, tl1, bl1)>>
        \o <<TriangleNew(br0, tr1, tr0), TriangleNew(br0, br1, tr1)>>

RECURSIVE RibbonSegments(_, _, _, _, _)
\* the triangles of iterations i .. Len(edges) - 1
RibbonSegments(edges, i, base_z, top_z, include_bottom) ==
    IF i > Len(edges) - 1 THEN <<>>
    ELSE RibbonSegment(edges, i, base_z, top_z, include_bottom)
         \o RibbonSegments(edges, i + 1, base_z, top_z, include_bottom)

\* a variant of the end caps that closes the start of the ribbon only;
\* C6_RibbonCount tells it from the end caps of the source
RibbonEndCapsStartOnly(edges, base_z, top_z) ==
    LET l0 == edges[1][1]
        r0 == edges[1][2]
    IN  <<TriangleNew(At(l0, base_z), At(l0, top_z), At(r0, top_z)),
          TriangleNew(At(l0, base_z), At(r0, top_z), At(r0, base_z))>>

\* the four end-cap triangles
RibbonEndCaps(edges, base_z, top_z) ==
    LET l0 == edges[1][1]
        r0 == edges[1][2]
        l1 == edges[Len(edges)][1]
        r1 == edges[Len(edges)][2]
    IN  <<TriangleNew(At(l0, base_z), At(l0, top_z), At(r0, top_z)),
          TriangleNew(At(l0, base_z), At(r0, top_z), At(r0, base_z)),
          TriangleNew(At(l1, base_z), At(r1, top_z), At(l1, top_z)),
          TriangleNew(At(l1, base_z), At(r1, base_z), At(r1, top_z))>>

\* a variant of extrude_ribbon_ex that returns early for an empty polyline
\* only and gives a lone point the tangent (1, 0);
\* C8_InsufficientInputEmpty tells it from the guard of the source
extrude_ribbon_ex_lone_point(points, width, height, base_z, include_bottom, include_end_caps) ==
    IF Len(points) < 1 THEN <<>>
    ELSE LET half_width == FDiv(width, Two)
             top_z      == FAdd(base_z, height)
             p          == points[1]
             edges      == IF Len(points) = 1
                           THEN << <<  <<p[1], FSub(p[2], half_width)>>,
                                       <<p[1], FAdd(p[2], half_width)>>  >> >>
                           ELSE RibbonEdges(points, half_width)
         IN  RibbonSegments(edges, 1, base_z, top_z, include_bottom)
             \o (IF include_end_caps /\ Len(edges) # 0
                 THEN RibbonEndCaps(edges, base_z, top_z)
                 ELSE <<>>)

extrude_ribbon_ex(points, width, height, base_z, include_bottom, include_end_caps) ==
    IF Len(points) < 2 THEN <<>>
    ELSE LET half_width == FDiv(width, Two)
             top_z      == FAdd(base_z, height)
             edges      == RibbonEdges(points, half_width)
         IN  RibbonSegments(edges, 1, base_z, top_z, include_bottom)
             \o (IF include_end_caps /\ Len(edges) # 0
                 THEN RibbonEndCaps(edges, base_z, top_z)
                 ELSE <<>>)

-----------------------------------------------------------------------------
(* earcutr::earcut, the library call of mesh/triangulation.rs.             *)
(* The ear clipping of earcut: a ring is the sequence of its nodes in      *)
(* next-order, rotated so that the node the algorithm holds comes first.   *)
(* A node is [i: vertex index from 0, id: node identity, st: steiner].     *)
(* Coordinates are f64 copies of finite grid values, so the products below *)
(* are exact.  The passes that repair self-intersecting input                  *)
(* (cure_local_intersections, split_earcut) are not modelled: when ear     *)
(* clipping is stuck after the filter pass the triangles found so far are  *)
(* returned; no simple ring reaches that point.                            *)

EcX(pts, n) == pts[2 * n.i + 1]

EcY(pts, n) == pts[2 * n.i + 2]

Rotate(ring, k) ==
    [j \in 1 .. Len(ring) |-> ring[((j + k - 2) % Len(ring)) + 1]]

EcNode(v) == [i |-> v, id |-> v, st |-> FALSE]

\* area(p, q, r): negative when p, q, r turn counter-clockwise (y up)
EcArea(pts, p, q, r) ==
    (EcY(pts, q) - EcY(pts, p)) * (EcX(pts, r) - EcX(pts, q))
    - (EcX(pts, q) - EcX(pts, p)) * (EcY(pts, r) - EcY(pts, q))

EcEquals(pts, p, q) == EcX(pts, p) = EcX(pts, q) /\ EcY(pts, p) = EcY(pts, q)

point_in_triangle(ax, ay, bx, by, cx, cy, px, py) ==
    /\ (cx - px) * (ay - py) - (ax - px) * (cy - py) >= 0
    /\ (ax - px) * (by - py) - (bx - px) * (ay - py) >= 0
    /\ (bx - px) * (cy - py) - (cx - px) * (by - py) >= 0

RECURSIVE EcSignedAreaFrom(_, _, _, _)
EcSignedAreaFrom(pts, start, end, i) ==
    IF i >= end THEN 0
    ELSE LET j == IF i = start THEN end - 1 ELSE i - 1
         IN  (pts[2 * j + 1] - pts[2 * i + 1]) * (pts[2 * i + 2] + pts[2 * j + 2])
             + EcSignedAreaFrom(pts, start, end, i + 1)

signed_area(pts, start, end) == EcSignedAreaFrom(pts, start, end, start)

\* the ring of vertices start .. end - 1 in the wanted winding, the node
\* inserted last first
linked_list(pts, start, end, clockwise) ==
    IF end <= start THEN <<>>
    ELSE LET n     == end - start
             order == IF clockwise = (signed_area(pts, start, end) > 0)
                      THEN [k \in 1 .. n |-> EcNode(start + k - 1)]
                      ELSE [k \in 1 .. n |-> EcNode(end - k)]
             ring  == Rotate(order, n)
         IN  IF n > 1 /\ EcEquals(pts, ring[1], ring[2]) THEN Tail(ring)
             ELSE ring

EcRemovable(pts, ring) ==
    LET n == Len(ring)
    IN  /\ ~ring[1].st
        /\ \/ EcEquals(pts, ring[1], ring[(1 % n) + 1])
           \/ EcArea(pts, ring[n], ring[1], ring[(1 % n) + 1]) = 0

RECURSIVE filter_points(_, _, _)
\* filter_points with p the first node and `left` nodes to visit before p
\* meets end; the result has end first
filter_points(pts, ring, left) ==
    IF Len(ring) = 0 THEN ring
    ELSE IF EcRemovable(pts, ring)
    THEN IF Len(ring) = 1 THEN ring
         ELSE LET rest == Rotate(Tail(ring), Len(ring) - 1)
              IN  IF Len(rest) = 1 THEN rest
                  ELSE filter_points(pts, rest, Len(rest))
    ELSE IF left <= 1 THEN Rotate(ring, 2)
    ELSE filter_points(pts, Rotate(ring, 2), left - 1)

\* is_ear of the first node of the ring
is_ear(pts, ring) ==
    LET n == Len(ring)
        a == ring[n]
        b == ring[1]
        c == ring[2]
    IN  /\ EcArea(pts, a, b, c) < 0
        /\ \A k \in 3 .. n - 1 :
              ~(/\ point_in_triangle(EcX(pts, a), EcY(pts, a), EcX(pts, b), EcY(pts, b),
                                     EcX(pts, c), EcY(pts, c),
                                     EcX(pts, ring[k]), EcY(pts, ring[k]))
                /\ EcArea(pts, ring[k - 1], ring[k], ring[k + 1]) >= 0)

RECURSIVE earcut_linked(_, _, _, _, _)
\* earcut_linked with the ear candidate first; `tried` counts the nodes
\* visited since stop was last set
earcut_linked(pts, ring, pass, tried, triangles) ==
    IF Len(ring) <= 2 THEN triangles
    ELSE IF is_ear(pts, ring)
    THEN earcut_linked(pts, Rotate(Tail(ring), 2), pass, 0,
                       triangles \o <<ring[Len(ring)].i, ring[1].i, ring[2].i>>)
    ELSE IF tried + 1 < Len(ring)
    THEN earcut_linked(pts, Rotate(ring, 2), pass, tried + 1, triangles)
    ELSE IF pass = 0
    THEN LET r == Rotate(ring, 2)
         IN  earcut_linked(pts, filter_points(pts, r, Len(r)), 1, 0, triangles)
    ELSE triangles

\* the position of the node with identity id, or 1 when it was removed
EcPosOf(ring, id) ==
    IF \E k \in 1 .. Len(ring) : ring[k].id = id
    THEN CHOOSE k \in 1 .. Len(ring) : ring[k].id = id
    ELSE 1

RECURSIVE EcLeftmostFrom(_, _, _, _)
EcLeftmostFrom(pts, ring, k, best) ==
    IF k > Len(ring) THEN best
    ELSE IF \/ EcX(pts, ring[k]) < EcX(pts, ring[best])
            \/ /\ EcX(pts, ring[k]) = EcX(pts, ring[best])
               /\ EcY(pts, ring[k]) < EcY(pts, ring[best])
         THEN EcLeftmostFrom(pts, ring, k + 1, k)
         ELSE EcLeftmostFrom(pts, ring, k + 1, best)

\* the position of the leftmost node of a ring
get_leftmost(pts, ring) == EcLeftmostFrom(pts, ring, 2, 1)

locally_inside(pts, ring, k, h) ==
    LET n  == Len(ring)
        a  == ring[k]
        ap == ring[((k + n - 2) % n) + 1]
        an == ring[(k % n) + 1]
    IN  IF EcArea(pts, ap, a, an) < 0
        THEN EcArea(pts, a, h, an) >= 0 /\ EcArea(pts, a, ap, h) >= 0
        ELSE EcArea(pts, a, h, ap) < 0 \/ EcArea(pts, a, an, h) < 0

RECURSIVE EcBridgeRay(_, _, _, _, _)
\* find_hole_bridge, first loop: the edge hit by the ray going left from h.
\* acc = [ret: position returned at once or 0, m: candidate or 0, qx, hit]
EcBridgeRay(pts, ring, h, k, acc) ==
    IF k > Len(ring) \/ acc.ret # 0 THEN acc
    ELSE LET p  == ring[k]
             pn == ring[(k % Len(ring)) + 1]
             hx == EcX(pts, h)
             hy == EcY(pts, h)
             crosses == /\ hy <= EcY(pts, p)
                        /\ hy >= EcY(pts, pn)
                        /\ EcY(pts, pn) # EcY(pts, p)
             x  == EcX(pts, p)
                   + ((hy - EcY(pts, p)) * (EcX(pts, pn) - EcX(pts, p)))
                     \div (EcY(pts, pn) - EcY(pts, p))
         IN  IF crosses /\ x <= hx /\ (~acc.hit \/ x > acc.qx)
             THEN IF x = hx /\ hy = EcY(pts, p)
                  THEN [acc EXCEPT !.ret = k]
                  ELSE IF x = hx /\ hy = EcY(pts, pn)
                  THEN [acc EXCEPT !.ret = (k % Len(ring)) + 1]
                  ELSE EcBridgeRay(pts, ring, h, k + 1,
                         [ret |-> 0, qx |-> x, hit |-> TRUE,
                          m |-> IF EcX(pts, p) < EcX(pts, pn) THEN k
                                ELSE (k % Len(ring)) + 1])
             ELSE EcBridgeRay(pts, ring, h, k + 1, acc)

RECURSIVE EcBridgeScan(_, _, _, _, _, _, _, _)
\* find_hole_bridge, second loop: among the nodes inside the triangle of h,
\* the ray's hit and m0, the one of least angle with the ray.  tan is a
\* fraction <<numerator, denominator>>, <<1, 0>> being infinity.
EcBridgeScan(pts, ring, h, qx, m0, steps, m, tan) ==
    IF steps >= Len(ring) THEN m
    ELSE LET n  == Len(ring)
             k  == ((m0 + steps - 1) % n) + 1
             p  == ring[k]
             hx == EcX(pts, h)
             hy == EcY(pts, h)
             mx == EcX(pts, ring[m0])
             my == EcY(pts, ring[m0])
             px == EcX(pts, p)
             py == EcY(pts, p)
             inside == /\ hx >= px
                       /\ px >= mx
                       /\ hx # px
                       /\ point_in_triangle(IF hy < my THEN hx ELSE qx, hy, mx, my,
                                            IF hy < my THEN qx ELSE hx, hy, px, py)
             t  == <<Abs(hy - py), hx - px>>
             better == \/ t[1] * tan[2] < tan[1] * t[2]
                       \/ t[1] * tan[2] = tan[1] * t[2] /\ px > EcX(pts, ring[m])
         IN  IF inside /\ better /\ locally_inside(pts, ring, k, h)
             THEN EcBridgeScan(pts, ring, h, qx, m0, steps + 1, k, t)
             ELSE EcBridgeScan(pts, ring, h, qx, m0, steps + 1, m, tan)

\* the position in the outer ring of the node to bridge hole node h to, or 0
find_hole_bridge(pts, h, ring) ==
    LET ray == EcBridgeRay(pts, ring, h, 1,
                           [ret |-> 0, qx |-> 0, hit |-> FALSE, m |-> 0])
        n   == Len(ring)
    IN  IF ray.ret # 0 THEN ray.ret
        ELSE IF ray.m = 0 THEN 0
        ELSE IF EcX(pts, h) = ray.qx THEN ((ray.m + n - 2) % n) + 1
        ELSE EcBridgeScan(pts, ring, h, ray.qx, ray.m, 1, ray.m, <<1, 0>>)

\* split_polygon(a, b) for a at position k of the outer ring and b the first
\* node of the hole ring: a, then the hole from b round to b again, then a again
split_polygon(ring, k, hole, id) ==
    SubSeq(ring, 1, k) \o hole
    \o <<[i |-> hole[1].i, id |-> id, st |-> FALSE],
         [i |-> ring[k].i, id |-> id + 1, st |-> FALSE]>>
    \o SubSeq(ring, k + 1, Len(ring))

\* eliminate_hole, then outer_node = filter_points(outer_node, outer_node.next)
eliminate_hole(pts, hole, ring, id) ==
    LET k == find_hole_bridge(pts, hole[1], ring)
        merged == IF k = 0 THEN ring
                  ELSE LET sp == split_polygon(ring, k, hole, id)
                           f  == filter_points(pts, Rotate(sp, k + Len(hole) + 1), 1)
                       IN  Rotate(f, EcPosOf(f, ring[1].id))
    IN  filter_points(pts, merged, 1)

\* the hole rings, each with its leftmost node first
EcHoleRing(pts, hole_indices, j) ==
    LET start == hole_indices[j]
        end   == IF j < Len(hole_indices) THEN hole_indices[j + 1] ELSE Len(pts) \div 2
        list  == linked_list(pts, start, end, FALSE)
        ring  == IF Len(list) = 1 THEN <<[list[1] EXCEPT !.st = TRUE]>> ELSE list
    IN  Rotate(ring, get_leftmost(pts, ring))

RECURSIVE EcInsertByX(_, _, _)
\* the queue with ring r inserted after the rings whose leftmost x is not larger
EcInsertByX(pts, queue, r) ==
    IF Len(queue) = 0 THEN <<r>>
    ELSE IF EcX(pts, r[1]) < EcX(pts, queue[1][1]) THEN <<r>> \o queue
    ELSE <<queue[1]>> \o EcInsertByX(pts, Tail(queue), r)

RECURSIVE EcQueue(_, _, _)
EcQueue(pts, hole_indices, j) ==
    IF j = 0 THEN <<>>
    ELSE EcInsertByX(pts, EcQueue(pts, hole_indices, j - 1),
                     EcHoleRing(pts, hole_indices, j))

RECURSIVE EcEliminateFrom(_, _, _, _)
EcEliminateFrom(pts, queue, j, ring) ==
    IF j > Len(queue) THEN ring
    ELSE EcEliminateFrom(pts, queue, j + 1,
                         eliminate_hole(pts, queue[j], ring, Len(pts) + 2 * j))

eliminate_holes(pts, hole_indices, outer_node) ==
    EcEliminateFrom(pts, EcQueue(pts, hole_indices, Len(hole_indices)), 1, outer_node)

\* earcut(data, hole_indices, 2): pts is the flat buffer x0, y0, x1, y1, ...
\* and the hole starts are vertex indices from 0
earcut(pts, hole_indices) ==
    LET outer_len  == IF Len(hole_indices) > 0 THEN hole_indices[1] ELSE Len(pts) \div 2
        outer_node == linked_list(pts, 0, outer_len, TRUE)
    IN  IF Len(outer_node) <= 2 THEN <<>>
        ELSE earcut_linked(pts,
                           IF Len(hole_indices) > 0
                           THEN eliminate_holes(pts, hole_indices, outer_node)
                           ELSE outer_node,
                           0, 0, <<>>)

-----------------------------------------------------------------------------
(* mesh/triangulation.rs *)

RECURSIVE Flatten(_)
\* the points of the rings of a list, ring after ring
Flatten(rings) ==
    IF Len(rings) = 0 THEN <<>> ELSE rings[1] \o Flatten(Tail(rings))

RECURSIVE PushYX(_)
\* a variant of PushXY that pushes y before x; C12_BufferLayout tells it
\* from the loop of the source
PushYX(ring) ==
    IF Len(ring) = 0 THEN <<>>
    ELSE <<ring[1][2], ring[1][1]>> \o PushYX(Tail(ring))

RECURSIVE PushXY(_)
\* vertices.push(x as f64); vertices.push(y as f64) for each point: the
\* widening of a finite f32 is exact
PushXY(ring) ==
    IF Len(ring) = 0 THEN <<>>
    ELSE <<ring[1][1], ring[1][2]>> \o PushXY(Tail(ring))

\* the flat vertex buffer: the outer ring, then each hole
TriVertices(outer, holes) == PushXY(outer) \o PushXY(Flatten(holes))

\* hole_indices: vertices.len() / 2 as each hole is appended
TriHoleIndices(outer, holes) ==
    [k \in 1 .. Len(holes) |->
        Len(PushXY(outer) \o PushXY(Flatten(SubSeq(holes, 1, k - 1)))) \div 2]

\* a variant of triangulate_polygon that returns early for fewer than 4
\* points; C11_TriangulationShape tells it from the guard of the source
triangulate_polygon_from_four(outer, holes) ==
    IF Len(outer) < 4 THEN <<>>
    ELSE earcut(TriVertices(outer, holes), TriHoleIndices(outer, holes))

triangulate_polygon(outer, holes) ==
    IF Len(outer) < 3 THEN <<>>
    ELSE earcut(TriVertices(outer, holes), TriHoleIndices(outer, holes))

-----------------------------------------------------------------------------
(* mesh/extrusion.rs *)

\* the two wall triangles of ring edge i (from 0) in add_side_walls
SideWall(ring, i, z_bottom, z_top) ==
    LET p1 == ring[i + 1]
        p2 == ring[((i + 1) % Len(ring)) + 1]
    IN  <<TriangleNew(At(p1, z_bottom), At(p2, z_bottom), At(p2, z_top)),
          TriangleNew(At(p1, z_bottom), At(p2, z_top), At(p1, z_top))>>

RECURSIVE SideWallsFrom(_, _, _, _)
SideWallsFrom(ring, i, z_bottom, z_top) ==
    IF i >= Len(ring) THEN <<>>
    ELSE SideWall(ring, i, z_bottom, z_top)
         \o SideWallsFrom(ring, i + 1, z_bottom, z_top)

\* the triangles add_side_walls pushes
add_side_walls(ring, z_bottom, z_top) ==
    IF Len(ring) < 3 THEN <<>> ELSE SideWallsFrom(ring, 0, z_bottom, z_top)

\* the two wall triangles of ring edge i (from 0) in add_side_walls_reversed
SideWallReversed(ring, i, z_bottom, z_top) ==
    LET p1 == ring[i + 1]
        p2 == ring[((i + 1) % Len(ring)) + 1]
    IN  <<TriangleNew(At(p1, z_bottom), At(p2, z_top), At(p2, z_bottom)),
          TriangleNew(At(p1, z_bottom), At(p1, z_top), At(p2, z_top))>>

RECURSIVE SideWallsReversedFrom(_, _, _, _)
SideWallsReversedFrom(ring, i, z_bottom, z_top) ==
    IF i >= Len(ring) THEN <<>>
    ELSE SideWallReversed(ring, i, z_bottom, z_top)
         \o SideWallsReversedFrom(ring, i + 1, z_bottom, z_top)

\* a variant of add_side_walls_reversed without the early return for a ring
\* of fewer than 3 points; C9_CountWalledHoles tells it from the source
add_side_walls_reversed_any_ring(ring, z_bottom, z_top) ==
    SideWallsReversedFrom(ring, 0, z_bottom, z_top)

\* the triangles add_side_walls_reversed pushes
add_side_walls_reversed(ring, z_bottom, z_top) ==
    IF Len(ring) < 3 THEN <<>>
    ELSE SideWallsReversedFrom(ring, 0, z_bottom, z_top)

\* the top and bottom triangle of one chunk of three indices
CapPair(all_points, tri, z_bottom, z_top) ==
    LET p0 == all_points[tri[1] + 1]
        p1 == all_points[tri[2] + 1]
        p2 == all_points[tri[3] + 1]
    IN  <<TriangleNew(At(p0, z_top), At(p1, z_top), At(p2, z_top)),
          TriangleNew(At(p0, z_bottom), At(p2, z_bottom), At(p1, z_bottom))>>

RECURSIVE CapsFrom(_, _, _, _, _)
\* the loop over indices.chunks(3) from chunk c (from 0); a last chunk of
\* fewer than three indices is skipped
CapsFrom(all_points, indices, c, z_bottom, z_top) ==
    IF 3 * c + 3 > Len(indices) THEN <<>>
    ELSE CapPair(all_points, SubSeq(indices, 3 * c + 1, 3 * c + 3), z_bottom, z_top)
         \o CapsFrom(all_points, indices, c + 1, z_bottom, z_top)

RECURSIVE HoleWallsFrom(_, _, _, _)
HoleWallsFrom(holes, k, z_bottom, z_top) ==
    IF k > Len(holes) THEN <<>>
    ELSE add_side_walls_reversed(holes[k], z_bottom, z_top)
         \o HoleWallsFrom(holes, k + 1, z_bottom, z_top)

extrude_polygon(outer, holes, z_bottom, z_top) ==
    IF Len(outer) < 3 THEN <<>>
    ELSE LET all_points == outer \o Flatten(holes)
             indices    == triangulate_polygon(outer, holes)
         IN  IF Len(indices) = 0 THEN <<>>
             ELSE CapsFrom(all_points, indices, 0, z_bottom, z_top)
                  \o add_side_walls(outer, z_bottom, z_top)
                  \o HoleWallsFrom(holes, 1, z_bottom, z_top)

-----------------------------------------------------------------------------
(* mesh/validation.rs *)

\* the literal 0.5
Half == One \div 2

has_invalid_coords(tri) ==
    \/ \E v \in 1 .. 3 : \E c \in 1 .. 3 : ~is_finite(tri.vertices[v][c])
    \/ \E c \in 1 .. 3 : ~is_finite(tri.normal[c])

\* the cross product of the two edges leaving vertex 0
EdgeCross(vertices) ==
    LET v0 == vertices[1]
        v1 == vertices[2]
        v2 == vertices[3]
        a  == <<FSub(v1[1], v0[1]), FSub(v1[2], v0[2]), FSub(v1[3], v0[3])>>
        b  == <<FSub(v2[1], v0[1]), FSub(v2[2], v0[2]), FSub(v2[3], v0[3])>>
    IN  <<FSub(FMul(a[2], b[3]), FMul(a[3], b[2])),
          FSub(FMul(a[3], b[1]), FMul(a[1], b[3])),
          FSub(FMul(a[1], b[2]), FMul(a[2], b[1]))>>

\* sqrt(x * x + y * y + z * z)
Norm3(c) == FSqrt(FAdd(FAdd(FMul(c[1], c[1]), FMul(c[2], c[2])), FMul(c[3], c[3])))

triangle_area(vertices) == FMul(Half, Norm3(EdgeCross(vertices)))

\* a variant of is_degenerate whose threshold is two square units;
\* C22_EndToEndTwelve tells it from MIN_TRIANGLE_AREA
is_degenerate_below_two(tri) == FLt(triangle_area(tri.vertices), 2 * One)

is_degenerate(tri) == LtEps(triangle_area(tri.vertices))

\* len_sq.is_finite() && (0.99..=1.01).contains(&len_sq)
is_normal_valid(normal) ==
    LET len_sq == FAdd(FAdd(FMul(normal[1], normal[1]), FMul(normal[2], normal[2])),
                       FMul(normal[3], normal[3]))
    IN  /\ is_finite(len_sq)
        /\ len_sq >= 0
        /\ len_sq <= 2 * One
        /\ 100 * len_sq >= 99 * One
        /\ 100 * len_sq <= 101 * One

\* validation.rs's own calculate_normal
validation_calculate_normal(vertices) ==
    LET n   == EdgeCross(vertices)
        len == Norm3(n)
    IN  IF GtEps(len) THEN <<FDiv(n[1], len), FDiv(n[2], len), FDiv(n[3], len)>>
        ELSE <<0, 0, One>>

fix_normals(triangles) ==
    [k \in 1 .. Len(triangles) |->
        [triangles[k] EXCEPT !.normal = validation_calculate_normal(triangles[k].vertices)]]

\* a variant of remove_degenerate that drops the whole mesh when one of its
\* triangles is invalid or degenerate; C16_Distributes tells it from the
\* filter of the source
remove_degenerate_all_or_none(triangles) ==
    IF \E k \in 1 .. Len(triangles) :
          has_invalid_coords(triangles[k]) \/ is_degenerate(triangles[k])
    THEN <<>>
    ELSE triangles

remove_degenerate(triangles) ==
    SelectSeq(triangles, LAMBDA tri : ~has_invalid_coords(tri) /\ ~is_degenerate(tri))

RECURSIVE ValidateFrom(_, _, _)
\* the loop of validate_mesh from triangle i (from 0)
ValidateFrom(triangles, i, result) ==
    IF i >= Len(triangles) THEN result
    ELSE LET tri == triangles[i + 1]
         IN  IF has_invalid_coords(tri)
             THEN ValidateFrom(triangles, i + 1,
                    [result EXCEPT !.invalid_coords = @ + 1,
                                   !.warnings = Append(@, <<"invalid_coords", i>>)])
             ELSE ValidateFrom(triangles, i + 1,
                    [result EXCEPT
                       !.degenerate = IF is_degenerate(tri) THEN @ + 1 ELSE @,
                       !.invalid_normal = IF ~is_normal_valid(tri.normal) THEN @ + 1
                                          ELSE @])

validate_mesh(triangles) ==
    LET r == ValidateFrom(triangles, 0,
                 [total |-> Len(triangles), degenerate |-> 0, invalid_coords |-> 0,
                  invalid_normal |-> 0, warnings |-> <<>>])
    IN  [r EXCEPT !.warnings =
            @ \o (IF r.degenerate > 0 THEN <<<<"degenerate", r.degenerate>>>> ELSE <<>>)
              \o (IF r.invalid_normal > 0
                  THEN <<<<"invalid_normal", r.invalid_normal>>>> ELSE <<>>)]

\* a variant of validate_and_fix that filters before it recomputes the
\* normals; C13_VerticesDecide tells it from the order of the source
validate_and_fix_filter_first(triangles) ==
    [cleaned |-> fix_normals(remove_degenerate(triangles)),
     report  |-> validate_mesh(triangles)]

validate_and_fix(triangles) ==
    [cleaned |-> remove_degenerate(fix_normals(triangles)),
     report  |-> validate_mesh(triangles)]

-----------------------------------------------------------------------------
(* geometry/simplify.rs.                                                    *)
(* Points are (lat, lon) pairs of f64; the model takes whole numbers.       *)
(* LineString::simplify is the Ramer-Douglas-Peucker of the geo crate.  A   *)
(* distance is kept as its exact square, the fraction n / d, and distances  *)
(* are compared as real numbers: the rounding of f64 is not modelled.       *)

\* geo::coord! { x: lon, y: lat }
ToCoord(point) == [x |-> point[2], y |-> point[1]]

\* (c.y, c.x)
FromCoord(c) == <<c.y, c.x>>

Sq(v) == v * v

\* the square of the distance from coordinate p to the segment from a to b
line_segment_distance(p, a, b) ==
    IF a = b THEN [n |-> Sq(p.x - a.x) + Sq(p.y - a.y), d |-> 1]
    ELSE LET dx == b.x - a.x
             dy == b.y - a.y
             d_squared == Sq(dx) + Sq(dy)
             \* r = t / d_squared
             t == (p.x - a.x) * dx + (p.y - a.y) * dy
             \* s = u / d_squared, and the distance is |s| * hypot(dx, dy)
             u == (a.y - p.y) * dx - (a.x - p.x) * dy
         IN  IF t <= 0 THEN [n |-> Sq(p.x - a.x) + Sq(p.y - a.y), d |-> 1]
             ELSE IF t >= d_squared
                  THEN [n |-> Sq(p.x - b.x) + Sq(p.y - b.y), d |-> 1]
                  ELSE [n |-> Sq(u), d |-> d_squared]

\* distance >= farthest_distance
DistGe(e, f) == e.n * f.d >= f.n * e.d

\* distance > epsilon, for epsilon > 0
DistAbove(e, epsilon) == e.n > Sq(epsilon) * e.d

RECURSIVE RdpFarthest(_, _, _, _, _)
\* the fold over the coordinates strictly between lo and hi, from k on:
\* the last of the farthest, as [index, distance]
RdpFarthest(coords, lo, hi, k, acc) ==
    IF k >= hi THEN acc
    ELSE LET distance == line_segment_distance(coords[k], coords[lo], coords[hi])
         IN  RdpFarthest(coords, lo, hi, k + 1,
                 IF DistGe(distance, acc.distance)
                 THEN [index |-> k, distance |-> distance]
                 ELSE acc)

\* a variant of compute_rdp that culls every slice whatever the distances;
\* C17_SubsequenceWithinEpsilon tells it from the recursion of the library
compute_rdp_ends_only(coords, lo, hi, epsilon) == <<lo, hi>>

RECURSIVE compute_rdp(_, _, _, _)
\* the indices kept of the slice coords[lo ..= hi], lo < hi.  The least
\* length of a LineString is 2, which culling never goes below.
compute_rdp(coords, lo, hi, epsilon) ==
    IF hi = lo + 1 THEN <<lo, hi>>
    ELSE LET far == RdpFarthest(coords, lo, hi, lo + 1,
                        [index |-> lo, distance |-> [n |-> 0, d |-> 1]])
         IN  IF DistAbove(far.distance, epsilon)
             THEN LET intermediate == compute_rdp(coords, lo, far.index, epsilon)
                  IN  SubSeq(intermediate, 1, Len(intermediate) - 1)
                      \o compute_rdp(coords, far.index, hi, epsilon)
             ELSE <<lo, hi>>

\* a variant of rdp that keeps everything when epsilon > 0 and culls
\* otherwise; C18_Monotone tells it from the guard of the library
rdp_indices_guard_flipped(coords, epsilon) ==
    IF epsilon > 0 \/ Len(coords) = 0 THEN [k \in 1 .. Len(coords) |-> k]
    ELSE IF Len(coords) = 1 THEN <<1>>
    ELSE compute_rdp(coords, 1, Len(coords), epsilon)

\* the indices rdp keeps: all of them unless epsilon > 0
rdp_indices(coords, epsilon) ==
    IF epsilon <= 0 \/ Len(coords) = 0 THEN [k \in 1 .. Len(coords) |-> k]
    ELSE IF Len(coords) = 1 THEN <<1>>
    ELSE compute_rdp(coords, 1, Len(coords), epsilon)

simplify(line, epsilon) ==
    LET kept == rdp_indices(line, epsilon)
    IN  [k \in 1 .. Len(kept) |-> line[kept[k]]]

simplify_polyline(points, epsilon) ==
    IF Len(points) < 4 THEN points
    ELSE LET line == [k \in 1 .. Len(points) |-> ToCoord(points[k])]
             simplified == simplify(line, epsilon)
         IN  [k \in 1 .. Len(simplified) |-> FromCoord(simplified[k])]

\* a variant of simplify_polygon that keeps the simplified ring however
\* short; C19_RingKeepsFour tells it from the fallback of the source
simplify_polygon_no_fallback(outer, epsilon) ==
    IF Len(outer) < 5 THEN outer ELSE simplify_polyline(outer, epsilon)

simplify_polygon(outer, epsilon) ==
    IF Len(outer) < 5 THEN outer
    ELSE LET simplified == simplify_polyline(outer, epsilon)
         IN  IF Len(simplified) < 4 THEN outer ELSE simplified

-----------------------------------------------------------------------------
(* geometry/scaling.rs.  f64 and f32 are binary floating-point formats     *)
(* with round-to-nearest-even and gradual underflow.  A value is counted   *)
(* in steps of 1/Quantum, the smallest subnormal; a format holds the       *)
(* values m * 2^e with |m| below its significand limit, which is 2^53 for  *)
(* f64 and 2^24 for f32 and is shortened here to Sig64 and Sig32.          *)
(* Infinities and NaN do not arise from the finite inputs used.            *)

\* steps per unit
Quantum == 16

\* the significand limits of f64 and of f32
Sig64 == 256

Sig32 == 32

\* the integer nearest to num / den (den > 0), ties to even
RoundDiv(num, den) ==
    LET q == num \div den
        r == num - q * den
    IN  IF 2 * r < den THEN q
        ELSE IF 2 * r > den THEN q + 1
        ELSE IF q % 2 = 0 THEN q
        ELSE q + 1

\* the spacing of the format around num / den
RECURSIVE Spacing(_, _, _)
Spacing(num, den, sig) ==
    IF Abs(num) < den * sig THEN 1 ELSE 2 * Spacing(num, 2 * den, sig)

\* num / den (den > 0) rounded into the format
RoundTo(sig, num, den) ==
    LET ulp == Spacing(num, den, sig) IN RoundDiv(num, den * ulp) * ulp

DAdd(a, b) == RoundTo(Sig64, a + b, 1)

DSub(a, b) == RoundTo(Sig64, a - b, 1)

DMul(a, b) == RoundTo(Sig64, a * b, Quantum)

\* b /= 0
DDiv(a, b) ==
    IF b > 0 THEN RoundTo(Sig64, a * Quantum, b)
    ELSE RoundTo(Sig64, 0 - a * Quantum, 0 - b)

\* `as f32`
AsF32(a) == RoundTo(Sig32, a, 1)

width(bounds) == DSub(bounds.max_x, bounds.min_x)

height(bounds) == DSub(bounds.max_y, bounds.min_y)

from_bounds_with_margin(bounds, target_mm, bottom_margin_mm) ==
    LET usable_height == DSub(target_mm, bottom_margin_mm)
        max_dim == IF width(bounds) >= height(bounds) THEN width(bounds)
                   ELSE height(bounds)
        scale_factor == IF max_dim > 0 THEN DDiv(usable_height, max_dim)
                        ELSE Quantum
        scaled_width == DMul(width(bounds), scale_factor)
        scaled_height == DMul(height(bounds), scale_factor)
    IN  [scale |-> scale_factor,
         offset_x |-> DSub(DDiv(DSub(target_mm, scaled_width), 2 * Quantum),
                           DMul(bounds.min_x, scale_factor)),
         offset_y |-> DSub(DAdd(bottom_margin_mm,
                                DDiv(DSub(usable_height, scaled_height),
                                     2 * Quantum)),
                           DMul(bounds.min_y, scale_factor)),
         target_mm |-> target_mm]

scale(self, x, y) ==
    LET scaled_x == DAdd(DMul(x, self.scale), self.offset_x)
        scaled_y == DAdd(DMul(y, self.scale), self.offset_y)
    IN  <<AsF32(scaled_x), AsF32(scaled_y)>>

-----------------------------------------------------------------------------
(* geometry/projection.rs.  Longitudes are whole degrees, which f64 holds   *)
(* exactly.  A result is [panic |-> TRUE] or the value with panic FALSE.    *)

\* `as u8` of a float: the cast saturates
AsU8(v) == IF v < 0 THEN 0 ELSE IF v > 255 THEN 255 ELSE v

\* `+ 1` in u8 panics on overflow in a build with overflow checks (the debug
\* profile) and wraps round in a build without them (the release profile)
calculate_utm_zone(lon, overflow_checks) ==
    LET lon_normalized == IF lon > 180 THEN lon - 360
                          ELSE IF lon < 0 - 180 THEN lon + 360
                          ELSE lon
        floor == AsU8((lon_normalized + 180) \div 6)
        zone == (floor + 1) % 256
    IN  IF floor + 1 > 255 /\ overflow_checks
        THEN [panic |-> TRUE, value |-> 0]
        ELSE [panic |-> FALSE,
              value |-> IF zone < 1 THEN 1 ELSE IF zone > 60 THEN 60 ELSE zone]

\* Projector::new; meters_per_lon_degree and meters_per_lat_degree are float
\* expressions of the latitude alone, which cannot panic, and are left out
Projector_new(center, overflow_checks) ==
    LET utm_zone == calculate_utm_zone(center[2], overflow_checks)
    IN  IF utm_zone.panic THEN utm_zone
        ELSE [panic |-> FALSE,
              value |-> [center_lat |-> center[1], center_lon |-> center[2],
                         utm_zone |-> utm_zone.value]]

-----------------------------------------------------------------------------
(* osm/parser.rs.  An element is a record; an absent Option is told by the  *)
(* flag beside it (has_pos for lat and lon, has_tags, has_nodes), and an    *)
(* absent tag is the empty string.  Coordinates count steps of 1e-10        *)
(* degrees, so that 1e-9 is 10.                                             *)

\* HashMap<u64, (f64, f64)>: the last node element of an id is the one kept
build_node_lookup(response) ==
    LET located == {k \in 1 .. Len(response) :
                        response[k].type_ = "node" /\ response[k].has_pos}
        last(id) == CHOOSE k \in located :
                        /\ response[k].id = id
                        /\ \A h \in located : response[h].id = id => h <= k
    IN  [id \in {response[k].id : k \in located} |->
            <<response[last(id)].lat, response[last(id)].lon>>]

resolve_way_to_points(node_refs, nodes) ==
    LET found == SelectSeq(node_refs, LAMBDA id : id \in DOMAIN nodes)
    IN  [k \in 1 .. Len(found) |-> nodes[found[k]]]

\* a variant of is_closed_way that looks at the length alone;
\* C27_ParsedFeaturesFit tells it from the comparison of the end points
is_closed_way_by_length(points) == Len(points) >= 3

is_closed_way(points) ==
    IF Len(points) < 3 THEN FALSE
    ELSE LET first == points[1]
             last  == points[Len(points)]
         IN  Abs(first[1] - last[1]) < 10 /\ Abs(first[2] - last[2]) < 10

\* RoadClass::from_highway_tag; "" is None
from_highway_tag(tag) ==
    IF tag \in {"motorway", "motorway_link"} THEN "Motorway"
    ELSE IF tag \in {"trunk", "trunk_link", "primary", "primary_link"} THEN "Primary"
    ELSE IF tag \in {"secondary", "secondary_link"} THEN "Secondary"
    ELSE IF tag \in {"tertiary", "tertiary_link"} THEN "Tertiary"
    ELSE IF tag \in {"residential", "living_street", "unclassified", "service"}
    THEN "Residential"
    ELSE ""

\* `for element in &response.elements`, past `if element.type_ != "way"
\* { continue; }`: the ways of a response, in order
ParseWays(response) ==
    SelectSeq(response, LAMBDA e : e.type_ = "way")

\* tags.get("layer").and_then(|l| l.parse().ok()).unwrap_or(0)
parse_roads(response) ==
    LET nodes == build_node_lookup(response)
        points(e) == resolve_way_to_points(e.nodes, nodes)
        keep(e) == /\ e.has_tags
                   /\ e.highway /= ""
                   /\ from_highway_tag(e.highway) /= ""
                   /\ e.has_nodes
                   /\ Len(points(e)) >= 2
        make(e) == [points |-> points(e),
                    class |-> from_highway_tag(e.highway),
                    layer |-> IF e.layer = "1" THEN 1
                              ELSE IF e.layer = "-1" THEN 0 - 1
                              ELSE 0]
        kept == SelectSeq(ParseWays(response), keep)
    IN  [k \in 1 .. Len(kept) |-> make(kept[k])]

parse_water(response) ==
    LET nodes == build_node_lookup(response)
        points(e) == resolve_way_to_points(e.nodes, nodes)
        keep(e) == /\ e.has_nodes
                   /\ is_closed_way(points(e))
                   /\ Len(points(e)) >= 4
        make(e) == [outer |-> points(e), holes |-> <<>>]
        kept == SelectSeq(ParseWays(response), keep)
    IN  [k \in 1 .. Len(kept) |-> make(kept[k])]

parse_parks(response) ==
    LET nodes == build_node_lookup(response)
        points(e) == resolve_way_to_points(e.nodes, nodes)
        keep(e) == /\ e.has_nodes
                   /\ is_closed_way(points(e))
                   /\ Len(points(e)) >= 4
        make(e) == [outer |-> points(e)]
        kept == SelectSeq(ParseWays(response), keep)
    IN  [k \in 1 .. Len(kept) |-> make(kept[k])]

-----------------------------------------------------------------------------
(* layers/base.rs *)

generate_base_plate(size_mm, thickness) ==
    LET x_min == 0
        x_max == size_mm
        y_min == 0
        y_max == size_mm
        z_bottom == FNeg(thickness)
        z_top == 0
    IN  <<TriangleNew(<<x_min, y_min, z_bottom>>, <<x_max, y_min, z_bottom>>,
                      <<x_max, y_max, z_bottom>>),
          TriangleNew(<<x_min, y_min, z_bottom>>, <<x_max, y_max, z_bottom>>,
                      <<x_min, y_max, z_bottom>>),
          TriangleNew(<<x_min, y_min, z_top>>, <<x_max, y_max, z_top>>,
                      <<x_max, y_min, z_top>>),
          TriangleNew(<<x_min, y_min, z_top>>, <<x_min, y_max, z_top>>,
                      <<x_max, y_max, z_top>>),
          TriangleNew(<<x_min, y_min, z_bottom>>, <<x_max, y_min, z_top>>,
                      <<x_max, y_min, z_bottom>>),
          TriangleNew(<<x_min, y_min, z_bottom>>, <<x_min, y_min, z_top>>,
                      <<x_max, y_min, z_top>>),
          TriangleNew(<<x_min, y_max, z_bottom>>, <<x_max, y_max, z_bottom>>,
                      <<x_max, y_max, z_top>>),
          TriangleNew(<<x_min, y_max, z_bottom>>, <<x_max, y_max, z_top>>,
                      <<x_min, y_max, z_top>>),
          TriangleNew(<<x_min, y_min, z_bottom>>, <<x_min, y_max, z_bottom>>,
                      <<x_min, y_max, z_top>>),
          TriangleNew(<<x_min, y_min, z_bottom>>, <<x_min, y_max, z_top>>,
                      <<x_min, y_min, z_top>>),
          TriangleNew(<<x_max, y_min, z_bottom>>, <<x_max, y_max, z_top>>,
                      <<x_max, y_max, z_bottom>>),
          TriangleNew(<<x_max, y_min, z_bottom>>, <<x_max, y_min, z_top>>,
                      <<x_max, y_max, z_top>>)>>

-----------------------------------------------------------------------------
(* main.rs: the merge of the command line with the config file and the      *)
(* choice of the map centre.  An Option is <<>> (None) or <<v>> (Some(v));  *)
(* size, base_height and road_scale count hundredths, so that 0.01 is 1.    *)
(* cli holds what clap parsed: an option left out has its default_value.    *)

\* args.x.or_else(|| file_config.as_ref().and_then(|c| c.x))
or_else(x, file_config, field) ==
    IF x /= <<>> THEN x
    ELSE IF file_config /= <<>> THEN file_config[1][field]
    ELSE <<>>

\* file_config.as_ref().map(|c| c.x).unwrap_or(default)
unwrap_or(file_config, field, default) ==
    IF file_config /= <<>> THEN file_config[1][field] ELSE default

merge(cli, file_config) ==
    [city |-> or_else(cli.city, file_config, "city"),
     country |-> or_else(cli.country, file_config, "country"),
     lat |-> or_else(cli.lat, file_config, "lat"),
     lon |-> or_else(cli.lon, file_config, "lon"),
     radius |-> IF cli.radius /= 10000 THEN cli.radius
                ELSE unwrap_or(file_config, "radius", 10000),
     size |-> IF Abs(cli.size - 22000) > 1 THEN cli.size
              ELSE unwrap_or(file_config, "size", 22000),
     base_height |-> IF Abs(cli.base_height - 200) > 1 THEN cli.base_height
                     ELSE unwrap_or(file_config, "base_height", 200),
     road_scale |-> IF Abs(cli.road_scale - 100) > 1 THEN cli.road_scale
                    ELSE unwrap_or(file_config, "road_scale", 100),
     road_depth |-> IF cli.road_depth /= "Primary" THEN cli.road_depth
                    ELSE unwrap_or(file_config, "road_depth", "Primary"),
     simplify |-> IF cli.simplify /= 0 THEN cli.simplify
                  ELSE unwrap_or(file_config, "simplify", 0),
     verbose |-> cli.verbose \/ unwrap_or(file_config, "verbose", FALSE)]

-----------------------------------------------------------------------------
(* Inputs *)

\* the longest polyline
MaxPts == 3

\* the largest number of hole rings
MaxHoles == 2

\* the largest mesh handed to the validator
MaxTris == 2

SeqsUpTo(S, n) == UNION {[1 .. k -> S] : k \in 0 .. n}

RibbonPointSet ==
    {<<0, 0>>, <<4 * One, 0>>, <<4 * One, 4 * One>>, <<0, 4 * One>>, <<8 * One, 0>>}

RibbonArgs ==
    [points : SeqsUpTo(RibbonPointSet, MaxPts),
     width : {One, 2 * One},
     height : {One},
     base_z : {0, One},
     include_bottom : BOOLEAN,
     include_end_caps : BOOLEAN]

Reverse(s) == [k \in 1 .. Len(s) |-> s[Len(s) + 1 - k]]

\* every rotation of a ring and of its reversal
Listings(ring) ==
    {Rotate(ring, k) : k \in 1 .. Len(ring)}
    \cup {Rotate(Reverse(ring), k) : k \in 1 .. Len(ring)}

Scaled(ring) == [k \in 1 .. Len(ring) |-> <<ring[k][1] * One, ring[k][2] * One>>]

\* simple outer rings, counter-clockwise as written: a square, a triangle, a
\* square with a vertex in the middle of an edge, an L.  Every coordinate is
\* a whole number of units, so the products of calculate_normal are exact.
SimpleRings ==
    {Scaled(<<<<0, 0>>, <<12, 0>>, <<12, 12>>, <<0, 12>>>>),
     Scaled(<<<<0, 0>>, <<12, 0>>, <<0, 12>>>>),
     Scaled(<<<<0, 0>>, <<6, 0>>, <<12, 0>>, <<12, 12>>, <<0, 12>>>>),
     Scaled(<<<<0, 0>>, <<12, 0>>, <<12, 6>>, <<6, 6>>, <<6, 12>>, <<0, 12>>>>)}

\* rings too short or too flat to bound anything
PoorRings ==
    {<<>>, <<<<0, 0>>>>, <<<<0, 0>>, <<4 * One, 0>>>>,
     <<<<0, 0>>, <<2 * One, 0>>, <<4 * One, 0>>>>}

\* a ring whose triangle is so small that the length of its cross product
\* is not above the 1e-10 of calculate_normal
TinyRing == <<<<0, 0>>, <<2, 0>>, <<0, 2>>>>

OuterRings == UNION {Listings(r) : r \in SimpleRings} \cup PoorRings

\* hole rings strictly inside every simple outer ring, in two places apart:
\* a small square; a small triangle, a single point, two points
HolesLeft ==
    {Scaled(<<<<1, 1>>, <<3, 1>>, <<3, 3>>, <<1, 3>>>>),
     Scaled(<<<<1, 3>>, <<3, 3>>, <<3, 1>>, <<1, 1>>>>)}

HolesRight ==
    {Scaled(<<<<7, 2>>, <<9, 1>>, <<9, 2>>>>),
     Scaled(<<<<9, 2>>, <<9, 1>>, <<7, 2>>>>),
     Scaled(<<<<8, 2>>>>),
     Scaled(<<<<7, 1>>, <<9, 2>>>>)}

HoleLists ==
    {h \in SeqsUpTo(HolesLeft \cup HolesRight, MaxHoles) :
        \A j, k \in 1 .. Len(h) : j # k => ~(h[j] \in HolesLeft <=> h[k] \in HolesLeft)}

PolygonArgs ==
    [outer : OuterRings, holes : HoleLists,
     z_bottom : {0}, z_top : {One}]
    \cup [outer : OuterRings, holes : HoleLists,
          z_bottom : {0 - 2 * One}, z_top : {0}]
    \cup [outer : Listings(TinyRing), holes : {<<>>},
          z_bottom : {0}, z_top : {2 * One}]

TriangulateArgs == [outer : OuterRings, holes : HoleLists]

\* vertex triples: sound, slanted, collinear, coincident, NaN, infinite, so
\* large that the squared cross product overflows, so large that the cross
\* product itself does
VertexTriples ==
    {<<<<0, 0, 0>>, <<One, 0, 0>>, <<0, One, 0>>>>,
     <<<<0, 0, 0>>, <<One, 0, 0>>, <<0, One, One>>>>,
     <<<<0, 0, 0>>, <<One, 0, 0>>, <<2 * One, 0, 0>>>>,
     <<<<0, 0, 0>>, <<0, 0, 0>>, <<One, One, 0>>>>,
     <<<<NAN, 0, 0>>, <<One, 0, 0>>, <<0, One, 0>>>>,
     <<<<INF, 0, 0>>, <<One, 0, 0>>, <<0, One, 0>>>>,
     <<<<0, 0, 0>>, <<1000 * One, 0, 0>>, <<0, 1000 * One, 0>>>>,
     <<<<0, 0, 0>>, <<100000 * One, 0, 0>>, <<0, 100000 * One, 0>>>>}

\* carried normals: +Z, a unit normal in a wrong direction, zero, NaN
Normals == {<<0, 0, One>>, <<One, 0, 0>>, <<0, 0, 0>>, <<NAN, 0, 0>>}

Triangles == [vertices : VertexTriples, normal : Normals]

MeshArgs == [triangles : SeqsUpTo(Triangles, MaxTris)]

\* the longest polyline handed to the simplifier
MaxLine == 5

\* (lat, lon) points: three on the line lat = 0, one at distance 1 and one at
\* distance 3 from it
SimplifyPointSet == {<<0, 0>>, <<0, 4>>, <<0, 6>>, <<1, 2>>, <<3, 2>>}

\* tolerances: none, and some at, below and above the distances that occur
Epsilons == {0, 1, 2, 3}

SimplifyArgs == [points : SeqsUpTo(SimplifyPointSet, MaxLine), epsilon : Epsilons]

\* bounds given by their lower corner and their extents (zero extents
\* included), a target size above the margin, and a point of the bounds: a
\* lower corner, a centre or an upper corner on each axis
ScaleArgs ==
    {[bounds |-> [min_x |-> a, max_x |-> a + w, min_y |-> b, max_y |-> b + h],
      target_mm |-> t, bottom_margin_mm |-> m,
      x |-> a + (w * i) \div 2, y |-> b + (h * j) \div 2] :
        a \in {0 - 5 * Quantum, 0, 3 * Quantum},
        b \in {0 - 5 * Quantum, 0, 3 * Quantum},
        w \in {0, 3 * Quantum, 5 * Quantum, 10 * Quantum},
        h \in {0, 3 * Quantum, 5 * Quantum, 10 * Quantum},
        t \in {8 * Quantum, 12 * Quantum}, m \in {0, 2 * Quantum},
        i \in 0 .. 2, j \in 0 .. 2}

\* the most mirrors in a configuration (an empty one stands for the two
\* built-in mirrors), and the largest max_retries
MaxUrls == 1

MaxRetries == 3

\* the most node references of a way
MaxRefs == 4

\* a node element and a way element
NodeElement(id, has_pos, lat, lon) ==
    [type_ |-> "node", id |-> id, has_pos |-> has_pos, lat |-> lat, lon |-> lon,
     has_nodes |-> FALSE, nodes |-> <<>>, has_tags |-> FALSE, highway |-> "",
     layer |-> ""]

WayElement(id, has_nodes, nodes, tags) ==
    [type_ |-> "way", id |-> id, has_pos |-> FALSE, lat |-> 0, lon |-> 0,
     has_nodes |-> has_nodes, nodes |-> nodes, has_tags |-> tags.has_tags,
     highway |-> tags.highway, layer |-> tags.layer]

\* nodes 1 and 2 apart from each other, node 4 without a position, node 6
\* within 1e-9 of node 1 and node 7 at 1e-9 from it
NodeElements ==
    <<NodeElement(1, TRUE, 0, 0), NodeElement(2, TRUE, 1000, 1000),
      NodeElement(4, FALSE, 0, 0), NodeElement(6, TRUE, 9, 0),
      NodeElement(7, TRUE, 10, 0)>>

\* no tags, tags without highway, a highway that is no road class, roads
WayTags ==
    {[has_tags |-> FALSE, highway |-> "", layer |-> ""],
     [has_tags |-> TRUE, highway |-> "", layer |-> ""],
     [has_tags |-> TRUE, highway |-> "footway", layer |-> ""],
     [has_tags |-> TRUE, highway |-> "primary", layer |-> "1"],
     [has_tags |-> TRUE, highway |-> "service", layer |-> "bridge"]}

\* the nodes, a way over any references, and a closed road after it
Responses ==
    {NodeElements \o <<WayElement(10, way[1], way[2], tags),
                       WayElement(11, TRUE, <<1, 2, 7, 6>>,
                                  [has_tags |-> TRUE, highway |-> "trunk",
                                   layer |-> "-1"])>> :
        way \in {<<FALSE, <<>>>>}
                 \cup ({TRUE} \X SeqsUpTo({1, 2, 4, 6, 7}, MaxRefs)),
        tags \in WayTags}

\* a command line: for each of the six options, whether it is given and its
\* value, the default_value when it is not given
Option6 ==
    [radius : {<<FALSE, 10000>>, <<TRUE, 10000>>, <<TRUE, 5000>>},
     size : {<<FALSE, 22000>>, <<TRUE, 22000>>, <<TRUE, 15000>>},
     base_height : {<<FALSE, 200>>, <<TRUE, 200>>, <<TRUE, 300>>},
     road_scale : {<<FALSE, 100>>, <<TRUE, 100>>, <<TRUE, 150>>},
     road_depth : {<<FALSE, "Primary">>, <<TRUE, "Primary">>, <<TRUE, "All">>},
     simplify : {<<FALSE, 0>>, <<TRUE, 0>>, <<TRUE, 2>>}]

\* what clap hands to main; lat and lon require each other
Cli(given, city, country, lat_lon, verbose) ==
    [city |-> city, country |-> country, lat |-> lat_lon, lon |-> lat_lon,
     radius |-> given.radius[2], size |-> given.size[2],
     base_height |-> given.base_height[2], road_scale |-> given.road_scale[2],
     road_depth |-> given.road_depth[2], simplify |-> given.simplify[2],
     verbose |-> verbose]

\* a config file: any of city, country, lat, lon, and either the defaults
\* or other values for the rest
FileConfigs ==
    [city : {<<>>, <<"Paris">>}, country : {<<>>, <<"France">>},
     lat : {<<>>, <<48>>}, lon : {<<>>, <<2>>},
     radius : {10000, 7000}, size : {22000}, base_height : {200},
     road_scale : {100}, road_depth : {"Primary"}, simplify : {0},
     verbose : BOOLEAN]
    \cup [city : {<<>>}, country : {<<>>}, lat : {<<>>}, lon : {<<>>},
          radius : {7000}, size : {18000}, base_height : {250},
          road_scale : {120}, road_depth : {"Motorway"}, simplify : {1},
          verbose : {FALSE}]

\* the calls of main: every choice of the six options with a city on the
\* command line, and every choice of city, country and coordinates with the
\* six options left out
MainArgs ==
    {[given |-> g, cli |-> Cli(g, <<"Oslo">>, <<"Norway">>, <<>>, FALSE),
      file_config |-> f] :
        g \in Option6,
        f \in {<<>>} \cup {<<c>> : c \in {c \in FileConfigs : c.city = <<>> /\ c.lat = <<>>
                                              /\ c.lon = <<>> /\ c.country = <<>>
                                              /\ ~c.verbose}}}
    \cup
    {[given |-> g, cli |-> Cli(g, city, country, lat_lon, verbose),
      file_config |-> f] :
        g \in {g \in Option6 : \A o \in DOMAIN g : ~g[o][1]},
        city \in {<<>>, <<"Oslo">>}, country \in {<<>>, <<"Norway">>},
        lat_lon \in {<<>>, <<60>>}, verbose \in BOOLEAN,
        f \in {<<>>} \cup {<<c>> : c \in {c \in FileConfigs : c.radius = 10000}}}

-----------------------------------------------------------------------------
(* Calls: a state is a call about to be made (pc = "call") or the call      *)
(* with its result (pc = "return").                                        *)

NoRet == <<>>

InitRibbon ==
    /\ pc = "call"
    /\ op = "extrude_ribbon_ex"
    /\ args \in RibbonArgs
    /\ ret = NoRet
    /\ local = NoRet

InitPolygon ==
    /\ pc = "call"
    /\ \/ op = "extrude_polygon" /\ args \in PolygonArgs
       \/ op = "triangulate_polygon" /\ args \in TriangulateArgs
    /\ ret = NoRet
    /\ local = NoRet

InitMesh ==
    /\ pc = "call"
    /\ op = "validate_and_fix"
    /\ args \in MeshArgs
    /\ ret = NoRet
    /\ local = NoRet

InitSimplify ==
    /\ pc = "call"
    /\ op \in {"simplify_polyline", "simplify_polygon"}
    /\ args \in SimplifyArgs
    /\ ret = NoRet
    /\ local = NoRet

InitScale ==
    /\ pc = "call"
    /\ op = "scale"
    /\ args \in ScaleArgs
    /\ ret = NoRet
    /\ local = NoRet

\* finite centres with |lat| <= 90 and longitudes up to 2100 degrees either
\* way, in steps of 30, and some either side of a zone boundary
InitProjector ==
    /\ pc = "call"
    /\ op = "Projector::new"
    /\ args \in [center : {-90, 0, 45, 90}
                          \X ({30 * k : k \in -70 .. 70} \cup {-123, 5, 6, 179})]
    /\ ret = NoRet
    /\ local = NoRet


\* polylines over four points, (0, 0) and (10, 0) among them, with width 2
\* and height 1
InitPipeline ==
    /\ pc = "call"
    /\ op = "extrude_and_validate"
    /\ args \in [points : SeqsUpTo({<<0, 0>>, <<10 * One, 0>>, <<4 * One, 4 * One>>,
                                     <<0, 4 * One>>}, MaxPts),
                 width : {2 * One},
                 height : {One},
                 base_z : {0, One},
                 include_bottom : BOOLEAN,
                 include_end_caps : BOOLEAN]
    /\ ret = NoRet
    /\ local = NoRet


\* configurations: the first 0..MaxUrls of four mirrors, any max_retries
InitOverpass ==
    /\ pc = "call"
    /\ op = "execute_overpass_query"
    /\ args \in [urls : {SubSeq(<<"mirror1", "mirror2", "mirror3", "mirror4">>, 1, n) :
                            n \in 0 .. MaxUrls},
                 max_retries : 0 .. MaxRetries]
    /\ ret = NoRet
    /\ local = NoRet


InitParser ==
    /\ pc = "call"
    /\ op \in {"parse_roads", "parse_water", "parse_parks"}
    /\ args \in [response : Responses]
    /\ ret = NoRet
    /\ local = NoRet


\* plates of 1 to 12 units with a thickness of 1 to 5 units
InitBase ==
    /\ pc = "call"
    /\ op = "generate_base_plate"
    /\ args \in [size_mm : {k * One : k \in 1 .. 12},
                 thickness : {k * One : k \in 1 .. 5}]
    /\ ret = NoRet
    /\ local = NoRet


InitMain ==
    /\ pc = "call"
    /\ op = "main"
    /\ args \in MainArgs
    /\ ret = NoRet
    /\ local = NoRet


Init == InitRibbon \/ InitPolygon \/ InitMesh \/ InitSimplify \/ InitScale \/ InitProjector \/ InitPipeline \/ InitOverpass \/ InitParser \/ InitBase \/ InitMain

ExtrudeRibbonEx ==
    /\ pc = "call"
    /\ op = "extrude_ribbon_ex"
    /\ ret' = extrude_ribbon_ex(args.points, args.width, args.height, args.base_z,
                                args.include_bottom, args.include_end_caps)
    /\ pc' = "return"
    /\ UNCHANGED <<op, args, local>>

ExtrudePolygon ==
    /\ pc = "call"
    /\ op = "extrude_polygon"
    /\ ret' = extrude_polygon(args.outer, args.holes, args.z_bottom, args.z_top)
    /\ pc' = "return"
    /\ UNCHANGED <<op, args, local>>

TriangulatePolygon ==
    /\ pc = "call"
    /\ op = "triangulate_polygon"
    /\ ret' = triangulate_polygon(args.outer, args.holes)
    /\ pc' = "return"
    /\ UNCHANGED <<op, args, local>>

ValidateAndFix ==
    /\ pc = "call"
    /\ op = "validate_and_fix"
    /\ ret' = validate_and_fix(args.triangles)
    /\ pc' = "return"
    /\ UNCHANGED <<op, args, local>>

SimplifyPolyline ==
    /\ pc = "call"
    /\ op = "simplify_polyline"
    /\ ret' = simplify_polyline(args.points, args.epsilon)
    /\ pc' = "return"
    /\ UNCHANGED <<op, args, local>>

SimplifyPolygon ==
    /\ pc = "call"
    /\ op = "simplify_polygon"
    /\ ret' = simplify_polygon(args.points, args.epsilon)
    /\ pc' = "return"
    /\ UNCHANGED <<op, args, local>>

\* Scaler::from_bounds_with_margin, then Scaler::scale of one point
Scale ==
    /\ pc = "call"
    /\ op = "scale"
    /\ ret' = LET scaler == from_bounds_with_margin(args.bounds, args.target_mm,
                                                   args.bottom_margin_mm)
              IN  [scaler |-> scaler, point |-> scale(scaler, args.x, args.y)]
    /\ pc' = "return"
    /\ UNCHANGED <<op, args, local>>

ProjectorNew ==
    /\ pc = "call"
    /\ op = "Projector::new"
    /\ \E overflow_checks \in BOOLEAN :
           ret' = Projector_new(args.center, overflow_checks)
    /\ pc' = "return"
    /\ UNCHANGED <<op, args, local>>

\* a ribbon extruded and handed to the validator, as main does with the
\* triangles of the layers
ExtrudeAndValidate ==
    /\ pc = "call"
    /\ op = "extrude_and_validate"
    /\ ret' = validate_and_fix(
                  extrude_ribbon_ex(args.points, args.width, args.height,
                                    args.base_z, args.include_bottom,
                                    args.include_end_caps))
    /\ pc' = "return"
    /\ UNCHANGED <<op, args, local>>

\* execute_overpass_query.  local holds the function's variables and log, the
\* requests sent (<<"send", url, outcome>>) and the waits made (<<"sleep", seconds>>)
\* so far; an absent last_error is <<>>.

\* the client is built, or fails to build, and the mirror list is chosen
OverpassBegin ==
    /\ pc = "call"
    /\ op = "execute_overpass_query"
    /\ local' = [urls |-> IF Len(args.urls) = 0
                          THEN <<"overpass.private.coffee", "overpass-api.de">>
                          ELSE args.urls,
                 url_idx |-> 0, attempt |-> 0, last_error |-> <<>>,
                 all_errors |-> <<>>, log |-> <<>>]
    /\ \E built \in BOOLEAN :
           IF built
           THEN pc' = "for_url" /\ ret' = ret
           ELSE pc' = "return" /\ ret' = [ok |-> FALSE, error |-> <<"client">>]
    /\ UNCHANGED <<op, args>>

\* the head of `for (url_idx, url) in urls`: the next mirror, or bail!
OverpassForUrl ==
    /\ pc = "for_url"
    /\ IF local.url_idx < Len(local.urls)
       THEN /\ local' = [local EXCEPT !.last_error = <<>>, !.attempt = 0]
            /\ pc' = "for_attempt"
            /\ ret' = ret
       ELSE /\ ret' = [ok |-> FALSE, error |-> <<"all_failed", local.all_errors>>]
            /\ pc' = "return"
            /\ local' = local
    /\ UNCHANGED <<op, args>>

\* let wait_secs = 30 * attempt as u64
\* a variant of wait_secs that waits 30 seconds before every retry;
\* C25_Waits tells it from 30 * attempt
wait_secs_flat(attempt) == 30 + 0 * attempt

wait_secs(attempt) == 30 * attempt

\* the wait before a retry
OverpassSleep ==
    /\ pc = "for_attempt"
    /\ local.attempt < args.max_retries
    /\ local.attempt > 0
    /\ local' = [local EXCEPT !.log = Append(@, <<"sleep", wait_secs(local.attempt)>>)]
    /\ pc' = "send"
    /\ UNCHANGED <<op, args, ret>>

\* a variant of control in which a 200 response that cannot be parsed is
\* one more retriable outcome; C23_StateOK tells it from the `?` of the source
control_parse_retried(outcome) ==
    IF outcome \in {"send_error", "429", "504", "200_unparsable"} THEN "continue" ELSE IF outcome = "200" THEN "return" ELSE "break"

\* where an outcome of send() leads: on with the attempts (continue), out
\* of the function (return or `?`), or on to the next mirror (break)
control(outcome) ==
    IF outcome \in {"send_error", "429", "504"} THEN "continue"
    ELSE IF outcome \in {"200", "200_unparsable"} THEN "return"
    ELSE "break"

\* one request and what comes of it
OverpassSend ==
    /\ \/ pc = "send"
       \/ pc = "for_attempt" /\ local.attempt < args.max_retries /\ local.attempt = 0
    /\ \E outcome \in {"send_error", "200", "200_unparsable", "429", "504", "500"} :
         LET url  == local.urls[local.url_idx + 1]
             sent == [local EXCEPT !.log = Append(@, <<"send", url, outcome>>)]
             err  == IF outcome = "send_error" THEN <<"request_failed">>
                     ELSE IF outcome \in {"429", "504"}
                     THEN <<"status", outcome, local.attempt + 1>>
                     ELSE <<"error_status", outcome>>
         IN  CASE control(outcome) = "continue" ->
                    /\ local' = [sent EXCEPT !.last_error = err, !.attempt = @ + 1]
                    /\ pc' = "for_attempt"
                    /\ ret' = ret
               [] control(outcome) = "return" ->
                    /\ local' = sent
                    /\ pc' = "return"
                    /\ ret' = IF outcome = "200" THEN [ok |-> TRUE, error |-> <<>>]
                              ELSE [ok |-> FALSE, error |-> <<"parse">>]
               [] OTHER ->
                    /\ local' = [sent EXCEPT !.last_error = err]
                    /\ pc' = "for_url_end"
                    /\ ret' = ret
    /\ UNCHANGED <<op, args>>

\* the end of the mirror's turn, after break or after the last attempt
OverpassUrlEnd ==
    /\ \/ pc = "for_url_end"
       \/ pc = "for_attempt" /\ local.attempt >= args.max_retries
    /\ local' = [local EXCEPT
                   !.all_errors = IF local.last_error /= <<>>
                                  THEN Append(@, <<local.urls[local.url_idx + 1],
                                                   local.last_error>>)
                                  ELSE @,
                   !.url_idx = @ + 1]
    /\ pc' = "for_url"
    /\ UNCHANGED <<op, args, ret>>

ParseRoads ==
    /\ pc = "call"
    /\ op = "parse_roads"
    /\ ret' = parse_roads(args.response)
    /\ pc' = "return"
    /\ UNCHANGED <<op, args, local>>

ParseWater ==
    /\ pc = "call"
    /\ op = "parse_water"
    /\ ret' = parse_water(args.response)
    /\ pc' = "return"
    /\ UNCHANGED <<op, args, local>>

ParseParks ==
    /\ pc = "call"
    /\ op = "parse_parks"
    /\ ret' = parse_parks(args.response)
    /\ pc' = "return"
    /\ UNCHANGED <<op, args, local>>

GenerateBasePlate ==
    /\ pc = "call"
    /\ op = "generate_base_plate"
    /\ ret' = generate_base_plate(args.size_mm, args.thickness)
    /\ pc' = "return"
    /\ UNCHANGED <<op, args, local>>

\* main, from the merge to the map centre; local holds the merged values
MainMerge ==
    /\ pc = "call"
    /\ op = "main"
    /\ local' = merge(args.cli, args.file_config)
    /\ pc' = "merged"
    /\ UNCHANGED <<op, args, ret>>

\* the two bail! checks, the verbose listing and `let center`: the process
\* exits with an error, panics on an unwrap of None, or has a centre, given
\* or geocoded
MainCenter ==
    /\ pc = "merged"
    /\ op = "main"
    /\ \E geocoded \in BOOLEAN :
         ret' =
           IF local.city = <<>> /\ local.lat = <<>>
           THEN [outcome |-> "error", by |-> "Must provide either --city or --lat"]
           ELSE IF local.city /= <<>> /\ local.country = <<>>
           THEN [outcome |-> "error", by |-> "--city requires --country"]
           ELSE IF local.verbose /\ local.city /= <<>> /\ local.country = <<>>
           THEN [outcome |-> "panic", by |-> "country.as_ref().unwrap()"]
           ELSE IF local.verbose /\ local.lat /= <<>> /\ local.lon = <<>>
           THEN [outcome |-> "panic", by |-> "lon.unwrap()"]
           ELSE IF local.lat /= <<>> /\ local.lon /= <<>>
           THEN [outcome |-> "center", by |-> "provided coordinates"]
           ELSE IF local.city = <<>>
           THEN [outcome |-> "panic", by |-> "city.as_ref().unwrap()"]
           ELSE IF local.country = <<>>
           THEN [outcome |-> "panic", by |-> "country.as_ref().unwrap()"]
           ELSE IF geocoded
           THEN [outcome |-> "center", by |-> "geocode_city"]
           ELSE [outcome |-> "error", by |-> "Failed to geocode city"]
    /\ pc' = "return"
    /\ UNCHANGED <<op, args, local>>

NextRibbon == ExtrudeRibbonEx

NextPolygon == ExtrudePolygon \/ TriangulatePolygon

NextMesh == ValidateAndFix

NextSimplify == SimplifyPolyline \/ SimplifyPolygon

Next ==
    \/ ExtrudeRibbonEx
    \/ ExtrudePolygon
    \/ TriangulatePolygon
    \/ ValidateAndFix
    \/ SimplifyPolyline
    \/ SimplifyPolygon
    \/ Scale
    \/ ProjectorNew
    \/ ExtrudeAndValidate
    \/ OverpassBegin
    \/ OverpassForUrl
    \/ OverpassSleep
    \/ OverpassSend
    \/ OverpassUrlEnd
    \/ ParseRoads
    \/ ParseWater
    \/ ParseParks
    \/ GenerateBasePlate
    \/ MainMerge
    \/ MainCenter

SpecRibbon == InitRibbon /\ [][NextRibbon]_vars

SpecPolygon == InitPolygon /\ [][NextPolygon]_vars

SpecMesh == InitMesh /\ [][NextMesh]_vars

SpecSimplify == InitSimplify /\ [][NextSimplify]_vars

SpecScale == InitScale /\ [][Scale]_vars

SpecProjector == InitProjector /\ [][ProjectorNew]_vars

SpecPipeline == InitPipeline /\ [][ExtrudeAndValidate]_vars

NextOverpass ==
    OverpassBegin \/ OverpassForUrl \/ OverpassSleep \/ OverpassSend \/ OverpassUrlEnd

SpecOverpass == InitOverpass /\ [][NextOverpass]_vars

\* the function runs on: no step of it waits for ever (the client has a
\* timeout, a sleep ends)
SpecOverpassFair == SpecOverpass /\ WF_vars(NextOverpass)

SpecParser == InitParser /\ [][ParseRoads \/ ParseWater \/ ParseParks]_vars

SpecBase == InitBase /\ [][GenerateBasePlate]_vars

SpecMain == InitMain /\ [][MainMerge \/ MainCenter]_vars

SpecExtrude == (InitRibbon \/ InitPolygon) /\ [][NextRibbon \/ NextPolygon]_vars

Spec == Init /\ [][Next]_vars

-----------------------------------------------------------------------------
(* Properties of meshes *)

\* the directed edges of a mesh
DirectedEdges(mesh) ==
    {<<mesh[k].vertices[j], mesh[k].vertices[(j % 3) + 1]>> :
        k \in 1 .. Len(mesh), j \in 1 .. 3}

\* every edge is traversed once in each direction: it is shared by exactly
\* two triangles, which traverse it in opposite directions
ClosedOriented(mesh) ==
    LET E == DirectedEdges(mesh)
    IN  /\ Cardinality(E) = 3 * Len(mesh)
        /\ \A e \in E : <<e[2], e[1]>> \in E

\* every triangle lying in the plane z = z0 has a normal of the given sign
FacesAt(mesh, z0, sign) ==
    \A k \in 1 .. Len(mesh) :
        (\A j \in 1 .. 3 : mesh[k].vertices[j][3] = z0)
            => Sgn(mesh[k].normal[3]) = sign

Returned(o) == pc = "return" /\ op = o

-----------------------------------------------------------------------------
(* Ribbon extrusion *)

\* the rail points of the call
Rails ==
    RibbonEdges(args.points, FDiv(args.width, Two))

RailsDistinct ==
    \A i, j \in 1 .. Len(args.points) : \A a, b \in 1 .. 2 :
        (i # j \/ a # b) => Rails[i][a] # Rails[j][b]

\* C2, as claimed: a ribbon of n >= 2 points with pairwise distinct rail
\* points, with bottom and end caps, is a closed solid whose edges are each
\* shared by two triangles traversing them in opposite directions, with the
\* top faces' normals +Z and the bottom faces' -Z.
C2_ClosedSolid ==
    (/\ Returned("extrude_ribbon_ex")
     /\ Len(args.points) >= 2
     /\ args.include_bottom /\ args.include_end_caps
     /\ RailsDistinct)
    => /\ ClosedOriented(ret)
       /\ FacesAt(ret, FAdd(args.base_z, args.height), 1)
       /\ FacesAt(ret, args.base_z, 0 - 1)

Bit(b) == IF b THEN 1 ELSE 0

\* C6: a polyline of n >= 2 points gives (n-1)*(6 + 2*[include_bottom])
\* + 4*[include_end_caps] triangles.
C6_RibbonCount ==
    (Returned("extrude_ribbon_ex") /\ Len(args.points) >= 2)
    => Len(ret) = (Len(args.points) - 1) * (6 + 2 * Bit(args.include_bottom))
                  + 4 * Bit(args.include_end_caps)

C6_Witness ==
    /\ Returned("extrude_ribbon_ex")
    /\ Len(args.points) = 3
    /\ RailsDistinct
    /\ args.include_bottom /\ args.include_end_caps
    /\ Len(ret) = 20

\* C7, as claimed: each consecutive pair of points gives 8 triangles for top
\* and sides and 2 more with the bottom, so a ribbon without end caps has
\* (n-1) * (8 + 2*[include_bottom]) triangles.
C7_EightPerSegment ==
    (Returned("extrude_ribbon_ex") /\ Len(args.points) >= 2 /\ ~args.include_end_caps)
    => Len(ret) = (Len(args.points) - 1) * (8 + 2 * Bit(args.include_bottom))

\* the xy points of a triangle
FootPrint(tri) == {<<tri.vertices[j][1], tri.vertices[j][2]>> : j \in 1 .. 3}

Heights(tri) == {tri.vertices[j][3] : j \in 1 .. 3}

\* C7, amended: the triangles of segment i are 2 on the top plane, then 2 on
\* the bottom plane when include_bottom is set, then 2 over the left rail and
\* 2 over the right rail: 6 per segment without the bottom, 8 with it.
C7_SixPerSegment ==
    (Returned("extrude_ribbon_ex") /\ Len(args.points) >= 2)
    => LET per   == 6 + 2 * Bit(args.include_bottom)
           top_z == FAdd(args.base_z, args.height)
       IN  /\ Len(ret) - 4 * Bit(args.include_end_caps) = (Len(args.points) - 1) * per
           /\ \A i \in 1 .. Len(args.points) - 1 :
                LET at(k) == ret[(i - 1) * per + k]
                    side  == per - 4
                IN  /\ \A k \in 1 .. 2 : Heights(at(k)) = {top_z}
                    /\ args.include_bottom
                         => \A k \in 3 .. 4 : Heights(at(k)) = {args.base_z}
                    /\ \A k \in 1 .. 2 :
                          FootPrint(at(side + k)) \subseteq {Rails[i][1], Rails[i + 1][1]}
                    /\ \A k \in 3 .. 4 :
                          FootPrint(at(side + k)) \subseteq {Rails[i][2], Rails[i + 1][2]}

C7_Witness ==
    /\ Returned("extrude_ribbon_ex")
    /\ Len(args.points) = 3
    /\ RailsDistinct
    /\ ~args.include_bottom /\ args.include_end_caps
    /\ Len(ret) = 16

-----------------------------------------------------------------------------
(* Polygon extrusion *)

\* the number of triangles the triangulator returns for the call
CapCount == Len(triangulate_polygon(args.outer, args.holes)) \div 3

SimpleOuter == Len(args.outer) >= 3 /\ args.outer \notin PoorRings

HolesAreRings == \A k \in 1 .. Len(args.holes) : Len(args.holes[k]) >= 3

\* C3, as claimed: for a simple outer ring listed in either direction, with
\* hole rings inside it, the extruded mesh is a closed 2-manifold: every edge
\* is shared by exactly two triangles that traverse it in opposite directions.
C3_ClosedManifold ==
    (Returned("extrude_polygon") /\ SimpleOuter /\ HolesAreRings)
    => Len(ret) > 0 /\ ClosedOriented(ret)

RECURSIVE ShoelaceFrom(_, _)
ShoelaceFrom(ring, k) ==
    IF k > Len(ring) THEN 0
    ELSE LET p == ring[k]
             q == ring[(k % Len(ring)) + 1]
         IN  p[1] * q[2] - q[1] * p[2] + ShoelaceFrom(ring, k + 1)

\* twice the signed area of a ring: positive when listed counter-clockwise
Shoelace(ring) == ShoelaceFrom(ring, 1)

\* the component of a normal along the direction that leaves the region
\* bounded by the ring across its edge i (from 0)
LeavingDot(ring, i, normal) ==
    LET p1 == ring[i + 1]
        p2 == ring[((i + 1) % Len(ring)) + 1]
        dx == p2[1] - p1[1]
        dy == p2[2] - p1[2]
    IN  Sgn(Shoelace(ring)) * (normal[1] * dy - normal[2] * dx)

RECURSIVE WallsBefore(_, _)
\* the number of wall triangles pushed for the holes before hole k
WallsBefore(holes, k) ==
    IF k <= 1 THEN 0
    ELSE WallsBefore(holes, k - 1)
         + (IF Len(holes[k - 1]) < 3 THEN 0 ELSE 2 * Len(holes[k - 1]))

\* C4, as claimed: in whichever direction a ring is listed, the two wall
\* triangles on an outer-ring edge have normals leaving the polygon and the
\* two on a hole-ring edge have normals entering the hole.
C4_WallNormals ==
    (Returned("extrude_polygon") /\ SimpleOuter /\ HolesAreRings)
    => \A T \in {CapCount} :
          T > 0 =>
          LET n == Len(args.outer)
          IN  /\ \A i \in 0 .. n - 1 : \A k \in 1 .. 2 :
                   LeavingDot(args.outer, i, ret[2 * T + 2 * i + k].normal) > 0
              /\ \A h \in 1 .. Len(args.holes) :
                   \A i \in 0 .. Len(args.holes[h]) - 1 : \A k \in 1 .. 2 :
                      LeavingDot(args.holes[h], i,
                                 ret[2 * T + 2 * n + WallsBefore(args.holes, h)
                                     + 2 * i + k].normal) < 0

RECURSIVE SumLen(_)
SumLen(rings) == IF Len(rings) = 0 THEN 0 ELSE Len(rings[1]) + SumLen(Tail(rings))

\* C9, as claimed: with T > 0 triangles from the triangulator the mesh has
\* 2*T + 2*|outer| + 2*(sum of the hole rings' lengths) triangles, a positive
\* even number; with none it is empty.
C9_CountAllHoles ==
    Returned("extrude_polygon")
    => IF CapCount > 0
       THEN /\ Len(ret) = 2 * CapCount + 2 * Len(args.outer) + 2 * SumLen(args.holes)
            /\ Len(ret) > 0 /\ Len(ret) % 2 = 0
       ELSE ret = <<>>

\* C9, amended: the sum runs over the hole rings of at least 3 points; a
\* shorter hole ring gets no wall.
C9_CountWalledHoles ==
    Returned("extrude_polygon")
    => IF CapCount > 0
       THEN /\ Len(ret) = 2 * CapCount + 2 * Len(args.outer)
                          + 2 * SumLen(SelectSeq(args.holes, LAMBDA h : Len(h) >= 3))
            /\ Len(ret) > 0 /\ Len(ret) % 2 = 0
       ELSE ret = <<>>

C9_Witness ==
    /\ Returned("extrude_polygon")
    /\ CapCount > 0
    /\ \E k \in 1 .. Len(args.holes) : Len(args.holes[k]) < 3
    /\ \E k \in 1 .. Len(args.holes) : Len(args.holes[k]) >= 3
    /\ Len(ret) > 2 * CapCount + 2 * Len(args.outer)

\* C10: for the c-th index triple (i0, i1, i2) the mesh holds a triangle at
\* z_top on (p_i0, p_i1, p_i2) and next a triangle at z_bottom on
\* (p_i0, p_i2, p_i1); with z_top > z_bottom the first has a normal pointing
\* up and the second a normal pointing down.
C10_CapPairs ==
    (Returned("extrude_polygon") /\ Len(args.outer) >= 3)
    => \A indices \in {triangulate_polygon(args.outer, args.holes)} :
       \A all_points \in {args.outer \o Flatten(args.holes)} :
       \A c \in 0 .. (Len(indices) \div 3) - 1 :
          LET p0 == all_points[indices[3 * c + 1] + 1]
              p1 == all_points[indices[3 * c + 2] + 1]
              p2 == all_points[indices[3 * c + 3] + 1]
              up == ret[2 * c + 1]
              dn == ret[2 * c + 2]
          IN  /\ up.vertices = <<At(p0, args.z_top), At(p1, args.z_top),
                                 At(p2, args.z_top)>>
              /\ dn.vertices = <<At(p0, args.z_bottom), At(p2, args.z_bottom),
                                 At(p1, args.z_bottom)>>
              /\ FLt(args.z_bottom, args.z_top)
                    => up.normal[3] > 0 /\ dn.normal[3] < 0

\* C8: too few points give an empty result, never an error or a partial
\* mesh: a ribbon of fewer than 2 points, a triangulation or an extrusion of an
\* outer ring of fewer than 3 points.
C8_InsufficientInputEmpty ==
    /\ (Returned("extrude_ribbon_ex") /\ Len(args.points) < 2) => ret = <<>>
    /\ (Returned("triangulate_polygon") /\ Len(args.outer) < 3) => ret = <<>>
    /\ (Returned("extrude_polygon") /\ Len(args.outer) < 3) => ret = <<>>

C8_Witness ==
    /\ Returned("extrude_polygon")
    /\ Len(args.outer) = 2
    /\ Len(args.holes) = 2
    /\ ret = <<>>

-----------------------------------------------------------------------------
(* Mesh validation *)

Dot3(a, b) == FAdd(FAdd(FMul(a[1], b[1]), FMul(a[2], b[2])), FMul(a[3], b[3]))

\* a squared length of 1, up to the rounding of the grid
UnitLength(normal) ==
    LET len_sq == Dot3(normal, normal)
    IN  is_finite(len_sq) /\ 2 * len_sq >= One /\ 2 * len_sq <= 3 * One

\* C1, as claimed: whatever the input mesh, every triangle of the cleaned
\* mesh has finite vertex and normal components, an area of at least 1e-10
\* and a unit-length normal along the right-hand-rule normal of its winding.
C1_CleanedSound ==
    Returned("validate_and_fix")
    => \A k \in 1 .. Len(ret.cleaned) :
          LET tri  == ret.cleaned[k]
              area == triangle_area(tri.vertices)
          IN  /\ ~has_invalid_coords(tri)
              /\ ~IsNan(area) /\ ~LtEps(area)
              /\ UnitLength(tri.normal)
              /\ FGt(Dot3(tri.normal, EdgeCross(tri.vertices)), 0)

\* C5, as claimed: the cleaned mesh is the input less the triangles the
\* report counts as invalid-coordinate or degenerate, so
\* len(cleaned) = report.total - report.degenerate - report.invalid_coords.
C5_RemovedAsReported ==
    Returned("validate_and_fix")
    => Len(ret.cleaned)
          = ret.report.total - ret.report.degenerate - ret.report.invalid_coords

-----------------------------------------------------------------------------
(* Triangulation *)

BufferPoint(vertices, i) == <<vertices[2 * i + 1], vertices[2 * i + 2]>>

\* C12: the vertex buffer of triangulate_polygon holds the outer ring, then
\* the holes in the order given; hole k starts at |outer| plus the lengths of
\* the holes before it; the points extrude_polygon resolves the indices with
\* are laid out alike, so every cap vertex is the buffer point of its index.
C12_BufferLayout ==
    (pc = "return" /\ op \in {"triangulate_polygon", "extrude_polygon"}
        /\ Len(args.outer) >= 3)
    => \A vertices \in {TriVertices(args.outer, args.holes)} :
       \A hole_indices \in {TriHoleIndices(args.outer, args.holes)} :
          /\ Len(vertices) = 2 * (Len(args.outer) + SumLen(args.holes))
          /\ \A i \in 1 .. Len(args.outer) :
                BufferPoint(vertices, i - 1) = args.outer[i]
          /\ Len(hole_indices) = Len(args.holes)
          /\ \A k \in 1 .. Len(args.holes) :
                /\ hole_indices[k]
                      = Len(args.outer) + SumLen(SubSeq(args.holes, 1, k - 1))
                /\ \A i \in 1 .. Len(args.holes[k]) :
                      BufferPoint(vertices, hole_indices[k] + i - 1)
                         = args.holes[k][i]
          /\ op = "extrude_polygon"
                => \A indices \in {triangulate_polygon(args.outer, args.holes)} :
                   \A c \in 0 .. (Len(indices) \div 3) - 1 : \A j \in 1 .. 3 :
                      LET v == ret[2 * c + 1].vertices[j]
                      IN  <<v[1], v[2]>> = BufferPoint(vertices, indices[3 * c + j])

C12_Witness ==
    /\ Returned("extrude_polygon")
    /\ Len(args.holes) = 2
    /\ Len(args.holes[1]) = 4 /\ Len(args.holes[2]) = 3
    /\ \E c \in 1 .. 2 * CapCount : \E j \in 1 .. 3 :
          <<ret[c].vertices[j][1], ret[c].vertices[j][2]>> = args.holes[2][3]

-----------------------------------------------------------------------------
(* Mesh validation, continued *)

\* the mesh with its normals replaced by those of ns
WithNormals(triangles, ns) ==
    [k \in 1 .. Len(triangles) |-> [triangles[k] EXCEPT !.normal = ns[k]]]

\* C13: the cleaned mesh depends on the vertices alone: whatever normals the
\* input carries (every combination of Normals is an input), the cleaned mesh
\* is the one the same vertices give under +Z normals, and every normal of
\* the cleaned mesh is the one recomputed from the triangle's vertices.
C13_VerticesDecide ==
    Returned("validate_and_fix")
    => /\ validate_and_fix(WithNormals(args.triangles,
                              [k \in 1 .. Len(args.triangles) |-> <<0, 0, One>>])).cleaned
             = ret.cleaned
       /\ \A k \in 1 .. Len(ret.cleaned) :
             ret.cleaned[k].normal
                = validation_calculate_normal(ret.cleaned[k].vertices)

C13_Witness ==
    /\ Returned("validate_and_fix")
    /\ Len(args.triangles) = 2
    /\ IsNan(args.triangles[1].normal[1])
    /\ args.triangles[2].normal = <<One, 0, 0>>
    /\ Len(ret.cleaned) = 2
    /\ ret.cleaned[1].normal = <<0, 0, One>>
    /\ ret.cleaned[2].normal # <<One, 0, 0>>

\* a carried normal and a recomputed one differ materially when some
\* component is not a finite value within a tenth of the other's
DiffersMaterially(old, new) ==
    \E c \in 1 .. 3 :
        \/ ~is_finite(old[c]) \/ ~is_finite(new[c])
        \/ 10 * Abs(old[c] - new[c]) > One

\* C14, as claimed: report.invalid_normal is the number of input triangles
\* whose recomputed normal differs materially from the normal they carried.
C14_CountsChangedNormals ==
    Returned("validate_and_fix")
    => ret.report.invalid_normal
          = Cardinality({k \in 1 .. Len(args.triangles) :
                DiffersMaterially(args.triangles[k].normal,
                    validation_calculate_normal(args.triangles[k].vertices))})

\* C15, as claimed: validate_and_fix applied to its own cleaned mesh returns
\* the same triangles and a report without degenerate, invalid-coordinate or
\* invalid-normal triangles.
C15_Idempotent ==
    Returned("validate_and_fix")
    => \A again \in {validate_and_fix(ret.cleaned)} :
          /\ again.cleaned = ret.cleaned
          /\ again.report.degenerate = 0
          /\ again.report.invalid_coords = 0
          /\ again.report.invalid_normal = 0

\* the counts of a report
Counts(report) ==
    <<report.total, report.degenerate, report.invalid_coords, report.invalid_normal>>

\* C16: validation distributes over concatenation: for every way of writing
\* the input as A ++ B with neither empty, the cleaned mesh is
\* cleaned(A) ++ cleaned(B) and each count of the report is the sum of the
\* counts for A and for B.  B ++ A is an input as well, so the two orders
\* give the same triangles.
C16_Distributes ==
    Returned("validate_and_fix")
    => \A j \in 1 .. Len(args.triangles) - 1 :
          \A va \in {validate_and_fix(SubSeq(args.triangles, 1, j))} :
          \A vb \in {validate_and_fix(SubSeq(args.triangles, j + 1,
                                             Len(args.triangles)))} :
             /\ ret.cleaned = va.cleaned \o vb.cleaned
             /\ \A c \in 1 .. 4 :
                   Counts(ret.report)[c] = Counts(va.report)[c] + Counts(vb.report)[c]

C16_Witness ==
    /\ Returned("validate_and_fix")
    /\ Len(args.triangles) = 2
    /\ Len(ret.cleaned) = 1
    /\ ret.cleaned[1].vertices = args.triangles[2].vertices
    /\ ret.report.degenerate = 1
    /\ ret.report.invalid_normal = 1

-----------------------------------------------------------------------------
(* Simplification *)

\* the distance from point k to the segment between points i and j is at
\* most epsilon
WithinEpsilon(points, k, i, j, epsilon) ==
    LET dist == line_segment_distance(ToCoord(points[k]), ToCoord(points[i]),
                                      ToCoord(points[j]))
    IN  dist.n <= Sq(epsilon) * dist.d

\* C17: simplify_polyline returns fewer than 4 points unchanged; otherwise
\* the points it returns are those at increasing positions of the input,
\* the first and the last among them, and every point dropped between two
\* kept positions is within epsilon of the segment between the two.
C17_SubsequenceWithinEpsilon ==
    Returned("simplify_polyline")
    => IF Len(args.points) < 4 THEN ret = args.points
       ELSE \A kept \in {rdp_indices([k \in 1 .. Len(args.points) |->
                                         ToCoord(args.points[k])], args.epsilon)} :
               /\ ret = [k \in 1 .. Len(kept) |-> args.points[kept[k]]]
               /\ kept[1] = 1 /\ kept[Len(kept)] = Len(args.points)
               /\ \A k \in 1 .. Len(kept) - 1 :
                     /\ kept[k] < kept[k + 1]
                     /\ \A m \in kept[k] + 1 .. kept[k + 1] - 1 :
                           WithinEpsilon(args.points, m, kept[k], kept[k + 1],
                                         args.epsilon)

C17_Witness ==
    /\ Returned("simplify_polyline")
    /\ args.points = <<<<0, 0>>, <<1, 2>>, <<0, 4>>, <<3, 2>>, <<0, 6>>>>
    /\ args.epsilon = 2
    /\ ret = <<<<0, 0>>, <<0, 4>>, <<3, 2>>, <<0, 6>>>>

\* C18: a larger tolerance never gives more points: for every tolerance
\* above the one of the call, simplify_polyline returns at most as many
\* points as the call did.
C18_Monotone ==
    Returned("simplify_polyline")
    => \A e2 \in Epsilons :
          e2 > args.epsilon
             => Len(simplify_polyline(args.points, e2)) <= Len(ret)

C18_Witness ==
    /\ Returned("simplify_polyline")
    /\ args.epsilon = 1
    /\ Len(args.points) = 5
    /\ Len(ret) = 4
    /\ Len(simplify_polyline(args.points, 2)) = 3
    /\ Len(simplify_polyline(args.points, 3)) = 2

Min(a, b) == IF a <= b THEN a ELSE b

\* C19: simplify_polygon returns a ring of fewer than 5 points unchanged;
\* a longer ring gives its polyline simplification when that has at least 4
\* points and the ring itself otherwise; so the result has at least
\* min(4, length of the ring) points.
C19_RingKeepsFour ==
    Returned("simplify_polygon")
    => /\ IF Len(args.points) < 5 THEN ret = args.points
          ELSE \A simplified \in {simplify_polyline(args.points, args.epsilon)} :
                  ret = IF Len(simplified) >= 4 THEN simplified ELSE args.points
       /\ Len(ret) >= Min(4, Len(args.points))

C19_Witness ==
    /\ Returned("simplify_polygon")
    /\ Len(args.points) = 5
    /\ args.points[1] = args.points[5]
    /\ Len(simplify_polyline(args.points, args.epsilon)) = 3
    /\ ret = args.points

-----------------------------------------------------------------------------
(* Scaling *)

\* C20: for bounds with max(width, height) > 0 and target_size >
\* bottom_margin >= 0 the scaler's factor is (target_size - bottom_margin) /
\* max(width, height) and every point of the bounds is scaled to x in
\* [0, target_size] and y in [bottom_margin, target_size]; for zero-extent
\* bounds the factor is 1 and the point maps to the centre of that region
C20_ScaledIntoWindow ==
    (pc = "return" /\ op = "scale") =>
        \A max_dim \in {IF width(args.bounds) >= height(args.bounds)
                         THEN width(args.bounds) ELSE height(args.bounds)} :
            IF max_dim > 0
            THEN /\ ret.scaler.scale =
                        DDiv(DSub(args.target_mm, args.bottom_margin_mm), max_dim)
                 /\ 0 <= ret.point[1] /\ ret.point[1] <= args.target_mm
                 /\ args.bottom_margin_mm <= ret.point[2]
                 /\ ret.point[2] <= args.target_mm
            ELSE /\ ret.scaler.scale = Quantum
                 /\ 2 * ret.point[1] = args.target_mm
                 /\ 2 * ret.point[2] = args.bottom_margin_mm + args.target_mm

-----------------------------------------------------------------------------
(* Projection *)

\* C21: Projector::new succeeds without panic for every finite centre with
\* |lat| <= 90, longitudes far outside [-180, 180] included, and the UTM zone
\* it computes lies in 1..60
C21_NewNeverPanics ==
    (pc = "return" /\ op = "Projector::new") =>
        /\ ~ret.panic
        /\ ret.value.utm_zone \in 1 .. 60

-----------------------------------------------------------------------------
(* Extrusion followed by validation *)

\* C22: the polyline (0,0) -> (10,0) extruded with width 2 and height 1,
\* bottom and end caps included, and passed through validate_and_fix gives
\* exactly 12 triangles, none degenerate, all coordinates finite and all
\* normals of unit length, and the report counts 0 degenerate and 0
\* invalid-coordinate triangles
C22_EndToEndTwelve ==
    (/\ pc = "return"
     /\ op = "extrude_and_validate"
     /\ args.points = <<<<0, 0>>, <<10 * One, 0>>>>
     /\ args.include_bottom
     /\ args.include_end_caps)
    => /\ Len(ret.cleaned) = 12
       /\ \A k \in 1 .. Len(ret.cleaned) :
              /\ ~is_degenerate(ret.cleaned[k])
              /\ ~has_invalid_coords(ret.cleaned[k])
              /\ is_normal_valid(ret.cleaned[k].normal)
       /\ ret.report.total = 12
       /\ ret.report.degenerate = 0
       /\ ret.report.invalid_coords = 0

C22_Witness ==
    /\ pc = "return"
    /\ op = "extrude_and_validate"
    /\ args.points = <<<<0, 0>>, <<10 * One, 0>>>>
    /\ args.base_z = 0
    /\ args.include_bottom
    /\ args.include_end_caps
    /\ Len(ret.cleaned) = 12

-----------------------------------------------------------------------------
(* Overpass queries *)

\* the requests of the log, in order
Sends(log) == SelectSeq(log, LAMBDA e : e[1] = "send")

\* the place of a mirror in the list
UrlIndex(urls, url) == CHOOSE k \in 1 .. Len(urls) : urls[k] = url

Running == op = "execute_overpass_query" /\ pc /= "call"

\* the requests so far go to the mirrors in list order, at most max_retries
\* to each; a later mirror is contacted only after each earlier one gave
\* max_retries retriable outcomes or one non-retriable status; there are at
\* most |urls| * max_retries requests and none follows a 200 response
C23_StateOK ==
    Running =>
        \A sends \in {Sends(local.log)} :
            /\ \A i, j \in 1 .. Len(sends) :
                   i < j => UrlIndex(local.urls, sends[i][2])
                                <= UrlIndex(local.urls, sends[j][2])
            /\ \A k \in 1 .. Len(local.urls) :
                   Cardinality({i \in 1 .. Len(sends) :
                                    sends[i][2] = local.urls[k]}) <= args.max_retries
            /\ \A j \in 1 .. Len(sends) :
                   \A k \in 1 .. UrlIndex(local.urls, sends[j][2]) - 1 :
                       \/ Cardinality({i \in 1 .. j - 1 :
                              /\ sends[i][2] = local.urls[k]
                              /\ sends[i][3] \in {"send_error", "429", "504"}})
                            = args.max_retries
                       \/ \E i \in 1 .. j - 1 :
                              /\ sends[i][2] = local.urls[k]
                              /\ sends[i][3] \notin {"send_error", "429", "504", "200",
                                                     "200_unparsable"}
            /\ Len(sends) <= Len(local.urls) * args.max_retries
            /\ \A i \in 1 .. Len(local.log) :
                   (local.log[i][1] = "send"
                    /\ local.log[i][3] \in {"200", "200_unparsable"})
                   => i = Len(local.log)

\* C23: execute_overpass_query contacts the mirrors strictly in list order,
\* sends at most max_retries requests to each, goes on to the next mirror
\* only after max_retries retriable outcomes or one non-retriable status,
\* sends no request after a 200 response, and always terminates, after at
\* most |urls| * max_retries requests
C23_OrderedBoundedTerminates == []C23_StateOK /\ <>(pc = "return")

C23_Witness ==
    /\ Running
    /\ pc = "return"
    /\ Len(local.urls) = 2
    /\ args.max_retries = 2
    /\ Len(Sends(local.log)) = 3
    /\ Sends(local.log)[2][3] = "429"
    /\ Sends(local.log)[3][3] = "200"

\* C24: whenever execute_overpass_query returns an error, every mirror of
\* the list has received at least one request (max_retries >= 1, the client
\* built); a 200 response that cannot be parsed leads to the next mirror
C24_ErrorOnlyAfterAllTried ==
    (/\ Running
     /\ pc = "return"
     /\ ~ret.ok
     /\ ret.error /= <<"client">>
     /\ args.max_retries >= 1)
    => \A k \in 1 .. Len(local.urls) :
           \E i \in 1 .. Len(local.log) :
               local.log[i][1] = "send" /\ local.log[i][2] = local.urls[k]

\* the requests to the mirror of the request at place i of the log that
\* come before it
EarlierSends(log, i) ==
    Cardinality({h \in 1 .. i - 1 : log[h][1] = "send" /\ log[h][2] = log[i][2]})

\* C25: the wait before the request with attempt index a >= 1 on a mirror is
\* exactly 30 * a seconds, no wait precedes the first request to a mirror,
\* and no wait is made after a non-retriable status or after the last
\* allowed attempt on a mirror
C25_Waits ==
    Running =>
        \A i \in 1 .. Len(local.log) :
            IF local.log[i][1] = "send"
            THEN IF EarlierSends(local.log, i) = 0
                 THEN i = 1 \/ local.log[i - 1][1] = "send"
                 ELSE local.log[i - 1] = <<"sleep", 30 * EarlierSends(local.log, i)>>
            ELSE /\ i > 1
                 /\ local.log[i - 1][1] = "send"
                 /\ local.log[i - 1][3] \in {"send_error", "429", "504"}
                 /\ EarlierSends(local.log, i - 1) + 1 < args.max_retries
                 /\ i = Len(local.log) => pc = "send"

C25_Witness ==
    /\ Running
    /\ pc = "return"
    /\ \E i \in 1 .. Len(local.log) : local.log[i] = <<"sleep", 60>>
    /\ \E i \in 2 .. Len(local.log) :
           /\ local.log[i][1] = "send"
           /\ local.log[i - 1][1] = "send"

\* C26: every call sends at least one request before it returns, whatever
\* max_retries is: the error that all endpoints failed is never reported
\* without an endpoint having been contacted
C26_FailedMeansContacted ==
    (/\ Running
     /\ pc = "return"
     /\ ~ret.ok
     /\ ret.error[1] = "all_failed")
    => Len(Sends(local.log)) >= 1

-----------------------------------------------------------------------------
(* Parsing *)

\* the position of a node in the elements of the inputs
NodeAt(id) ==
    CHOOSE p \in {<<NodeElements[k].lat, NodeElements[k].lon>> :
                     k \in {h \in 1 .. Len(NodeElements) : NodeElements[h].id = id}} :
        TRUE

\* the positions of the references that have one, in the order of refs
InRefOrder(refs) ==
    LET placed == SelectSeq(refs, LAMBDA id : id \in {1, 2, 6, 7})
    IN  [k \in 1 .. Len(placed) |-> NodeAt(placed[k])]

\* the ways of a response
Ways(response) == SelectSeq(response, LAMBDA e : e.type_ = "way")

\* C27: every road returned by parse_roads has at least 2 points, listed in
\* the order of its way's node references, and every polygon returned by
\* parse_water or parse_parks has at least 4 points, the first and the last
\* within 1e-9 of each other in both coordinates; the other ways are
\* skipped: the features are those of some of the ways, in order
C27_ParsedFeaturesFit ==
    (pc = "return" /\ op \in {"parse_roads", "parse_water", "parse_parks"}) =>
        \A ways \in {Ways(args.response)} :
            /\ Len(ret) <= Len(ways)
            /\ \A k \in 1 .. Len(ret) :
                   \A points \in {IF op = "parse_roads" THEN ret[k].points
                                  ELSE ret[k].outer} :
                       /\ \E w \in k .. Len(ways) : points = InRefOrder(ways[w].nodes)
                       /\ IF op = "parse_roads" THEN Len(points) >= 2
                          ELSE /\ Len(points) >= 4
                               /\ Abs(points[1][1] - points[Len(points)][1]) < 10
                               /\ Abs(points[1][2] - points[Len(points)][2]) < 10

C27_Witness ==
    /\ pc = "return"
    /\ op = "parse_water"
    /\ Len(ret) = 2
    /\ Ways(args.response)[1].nodes = <<6, 2, 7, 1>>

-----------------------------------------------------------------------------
(* Base plate *)

\* the normal of a triangle points away from the centre of the box
PointsOut(tri, size_mm, thickness) ==
    LET sum(c) == tri.vertices[1][c] + tri.vertices[2][c] + tri.vertices[3][c]
    IN  tri.normal[1] * (2 * sum(1) - 3 * size_mm)
          + tri.normal[2] * (2 * sum(2) - 3 * size_mm)
          + tri.normal[3] * (2 * sum(3) + 3 * thickness) > 0

\* C28: for size_mm > 0 and thickness > 0 generate_base_plate returns 12
\* triangles forming a closed box between z = -thickness and z = 0; the two
\* bottom triangles have normals pointing down, the two top triangles have
\* normals pointing up, and every side normal points out of the box
C28_BoxNormalsOutward ==
    (pc = "return" /\ op = "generate_base_plate") =>
        /\ Len(ret) = 12
        /\ ClosedOriented(ret)
        /\ \A k \in 1 .. 12 : \A j \in 1 .. 3 :
               ret[k].vertices[j][3] \in {0 - args.thickness, 0}
        /\ \A k \in 1 .. 2 : ret[k].normal = <<0, 0, 0 - One>>
        /\ \A k \in 3 .. 4 : ret[k].normal = <<0, 0, One>>
        /\ \A k \in 5 .. 12 : PointsOut(ret[k], args.size_mm, args.thickness)

-----------------------------------------------------------------------------
(* Command line and config file *)

\* C29: a value given on the command line for radius, size, base_height,
\* road_scale, road_depth or simplify is the value used, whatever the config
\* file sets; the value of the config file is used only when the option is
\* absent from the command line
C29_CommandLineWins ==
    (op = "main" /\ pc \in {"merged", "return"}) =>
        \A o \in DOMAIN args.given :
            /\ args.given[o][1] => local[o] = args.given[o][2]
            /\ (~args.given[o][1] /\ args.file_config /= <<>>)
                   => local[o] = args.file_config[1][o]

\* C30: main never panics while resolving the map centre: whatever city,
\* country, lat and lon are after the merge, verbose or not, it proceeds
\* with a centre or exits with an error
C30_CenterNeverPanics ==
    (op = "main" /\ pc = "return") => ret.outcome \in {"center", "error"}

=============================================================================
